---- MODULE Spec2Model ----
(***************************************************************************)
(* Credit engine, billing/coupon/admin grant paths and the job Runner of   *)
(* the decision-maker engine backend.                                      *)
(*                                                                         *)
(* Time is counted in periods of 30 days (timedelta(days=30) = 1,          *)
(* timedelta(days=90) = 3).  A ledger row id is its position in the        *)
(* ledger (autoincrement primary key); a fresh uuid4 lot_id is modelled by *)
(* the id of the row that opens the lot.                                   *)
(***************************************************************************)
EXTENDS Integers, Sequences, FiniteSets, TLC

\* ------------------------------------------------------------------ bounds
MaxLedger == 4
MaxLots == 2
MaxTime == 1
MaxCredits == 1
MaxSpend == 2

\* ------------------------------------------------------- program constants
PlanTrialCredits == 20
TopupDays == 3
DefaultDays == 1

\* ------------------------------------------------------------ value spaces
U1 == "u1"
U2 == "u2"
Users == {U1, U2}
NoExpiry == -1
NoLot == 0
NoJob == 0
NoAccount == -1000
Times == 0..MaxTime
PeriodEnds == 1..MaxTime
Invoices == {1}
Orders == {1}
CouponCredits == 1
EngineJobId == 9
\* the subscription row of the user as the billing webhooks left it
NoSub == [plan |-> "", period_end |-> 0]
SubStates == {NoSub, [plan |-> "business", period_end |-> 1],
              [plan |-> "entry", period_end |-> 1]}

VARIABLES
  ledger,    \* credit_ledger table: sequence of committed rows, id = index
  balance,   \* credit_accounts.balance per user, NoAccount when no row exists
  redeemed,  \* coupon_assignments.redeemed_at is set, for the coupon of U1
  now,       \* utcnow() in periods
  last,      \* the operation that produced the current state, with its result
  sess,      \* database sessions running a credit operation statement by statement
  job_row,   \* the jobs row of the one job, as committed
  companies, \* job.companies_data: the kinds of the input rows
  concurrency, \* JOB_CONCURRENCY, the batch size
  runner,    \* position of _process_job_task
  batch_start, \* first row (1-based) of the batch in flight
  dms,       \* decision_makers rows committed, each named by its input row
  hist,      \* what the Runner did: rows charged, counted, the row whose spend raised
  val,       \* one run of the candidate validation of the Runner on one row's results
  lim,       \* the planner calls in flight, each with the _SerperRateLimiter of its client
  llmsem,    \* _LLM_SEMAPHORES and the chat calls of the jobs running in the process
  chat,      \* one call of _chat_completion, attempt by attempt
  rcache,    \* the research calls made so far, with what each one issued and returned
  planrun,   \* one call of _run_serper_planner, query by query
  rolecall,  \* one call of _decide_role with its arguments and its result
  batchrun,  \* the batch loop of one job, pipeline by pipeline
  ttlcache   \* one TTLCache and the clock it reads

creditVars == <<ledger, balance, redeemed, now, last>>
concVars == <<sess>>
jobVars == <<job_row, companies, concurrency, runner, batch_start, dms, hist>>
\* the state of the parts modelled on their own
otherVars == <<val, lim, llmsem, chat, rcache, planrun, rolecall, batchrun, ttlcache>>
vars == <<ledger, balance, redeemed, now, last, sess, job_row, companies, concurrency,
          runner, batch_start, dms, hist, otherVars>>
\* what the sequential credit operations leave alone
notCredit == <<sess, job_row, companies, concurrency, runner, batch_start, dms, hist,
               otherVars>>
\* what the concurrent credit operations leave alone
notConc == <<jobVars, otherVars>>
\* what the Runner and cancel_job leave alone, the ledger aside
notJob == <<sess, otherVars>>

\* ------------------------------------------------------------- ledger rows
Min(a, b) == IF a <= b THEN a ELSE b
Max(a, b) == IF a >= b THEN a ELSE b

RECURSIVE SumDelta(_)
SumDelta(rows) ==
  IF rows = <<>> THEN 0 ELSE Head(rows).delta + SumDelta(Tail(rows))

CreditLedger(led, user, lot, etype, delta, source, job, expires, t) ==
  [id |-> Len(led) + 1, user |-> user, lot |-> lot, etype |-> etype,
   delta |-> delta, source |-> source, job |-> job, created |-> t,
   expires |-> expires]

\* (expires_at IS NULL) | (expires_at > now)
NotExpired(r, t) == r.expires = NoExpiry \/ r.expires > t

\* PLAN_MONTHLY_CREDITS.get(plan_key, 0)
PLAN_MONTHLY_CREDITS(plan) == IF plan = "trial" THEN PlanTrialCredits ELSE 0

\* acct.balance or 0, on the row get_or_create_credit_account returns
AcctBalance(bal, u) == IF bal[u] = NoAccount THEN 0 ELSE bal[u]

\* variant: the sum also counts expired rows
recalculate_effective_balance_all_rows(led, u, t) ==
  SumDelta(SelectSeq(led, LAMBDA r : r.user = u))

\* the ledger sum of recalculate_effective_balance
recalculate_effective_balance(led, u, t) ==
  SumDelta(SelectSeq(led, LAMBDA r : r.user = u /\ NotExpired(r, t)))

\* grant_monthly_credits: one row, cached balance bumped by the credits
grant_monthly_credits(led, bal, u, plan, period_end, source, t) ==
  LET credits == PLAN_MONTHLY_CREDITS(plan)
      entry == CreditLedger(led, u, Len(led) + 1, "grant_monthly", credits,
                            source, NoJob, period_end, t)
  IN [ledger |-> Append(led, entry),
      balance |-> [bal EXCEPT ![u] = AcctBalance(bal, u) + credits]]

\* grant_business_topup: one row expiring 90 days from now
grant_business_topup(led, bal, u, credits, source, t) ==
  LET entry == CreditLedger(led, u, Len(led) + 1, "topup", credits,
                            source, NoJob, t + TopupDays, t)
  IN [ledger |-> Append(led, entry),
      balance |-> [bal EXCEPT ![u] = AcctBalance(bal, u) + credits]]

\* variant: lots ordered by creation only
LotBefore_by_creation(a, b) ==
  \/ a.created < b.created
  \/ a.created = b.created /\ a.id < b.id

\* ORDER BY expires_at ASC, created_at ASC, id ASC.  No positive row is ever
\* written with a NULL expires_at, so the placement of NULLs (database
\* dependent) does not arise; NULL is ordered last here.
LotBefore(a, b) ==
  LET ea == IF a.expires = NoExpiry THEN MaxTime + 100 ELSE a.expires
      eb == IF b.expires = NoExpiry THEN MaxTime + 100 ELSE b.expires
  IN \/ ea < eb
     \/ ea = eb /\ a.created < b.created
     \/ ea = eb /\ a.created = b.created /\ a.id < b.id

\* the lots query of spend_credits_for_job
SpendLots(led, u, t) ==
  SortSeq(SelectSeq(led, LAMBDA r : r.user = u /\ r.delta > 0 /\ NotExpired(r, t)),
          LotBefore)

\* variant: the total of a lot counts its grant only
LotTotal_grant_only(led, u, lot_id) ==
  SumDelta(SelectSeq(led, LAMBDA r : r.user = u /\ r.lot = lot_id /\ r.delta > 0))

\* lot_total: sum over the committed rows of the lot (autoflush is off, so
\* rows added to the session in this call are not seen)
LotTotal(led, u, lot_id) ==
  SumDelta(SelectSeq(led, LAMBDA r : r.user = u /\ r.lot = lot_id))

\* variant: the spend row is written without expires_at
SpendStep_unexpiring(led, u, lot, st, job, source) ==
  IF lot.lot = NoLot THEN st
  ELSE LET lot_remaining == LotTotal(led, u, lot.lot)
       IN IF lot_remaining <= 0 THEN st
          ELSE LET use == Min(lot_remaining, st.remaining)
                   spend == [user |-> u, lot |-> lot.lot, etype |-> "spend",
                             delta |-> 0 - use, source |-> source, job |-> job,
                             expires |-> NoExpiry]
               IN [remaining |-> st.remaining - use,
                   pending |-> Append(st.pending, spend)]

\* variant: the whole remainder of the lot is taken
SpendStep_whole_lot(led, u, lot, st, job, source) ==
  IF lot.lot = NoLot THEN st
  ELSE LET lot_remaining == LotTotal(led, u, lot.lot)
       IN IF lot_remaining <= 0 THEN st
          ELSE LET use == lot_remaining
                   spend == [user |-> u, lot |-> lot.lot, etype |-> "spend",
                             delta |-> 0 - use, source |-> source, job |-> job,
                             expires |-> lot.expires]
               IN [remaining |-> IF st.remaining > use THEN st.remaining - use ELSE 0,
                   pending |-> Append(st.pending, spend)]

\* one iteration of the "for lot in lots" loop
SpendStep(led, u, lot, st, job, source) ==
  IF lot.lot = NoLot THEN st
  ELSE LET lot_remaining == LotTotal(led, u, lot.lot)
       IN IF lot_remaining <= 0 THEN st
          ELSE LET use == Min(lot_remaining, st.remaining)
                   spend == [user |-> u, lot |-> lot.lot, etype |-> "spend",
                             delta |-> 0 - use, source |-> source, job |-> job,
                             expires |-> lot.expires]
               IN [remaining |-> st.remaining - use,
                   pending |-> Append(st.pending, spend)]

RECURSIVE SpendLoop(_, _, _, _, _, _, _)
SpendLoop(led, u, lots, i, st, job, source) ==
  IF i > Len(lots) \/ st.remaining <= 0 THEN st
  ELSE SpendLoop(led, u, lots, i + 1, SpendStep(led, u, lots[i], st, job, source),
                 job, source)

\* db.commit() of rows added to the session: ids and created_at are assigned
RECURSIVE Flush(_, _, _)
Flush(led, pending, t) ==
  IF pending = <<>> THEN led
  ELSE LET p == Head(pending)
       IN Flush(Append(led, CreditLedger(led, p.user, p.lot, p.etype, p.delta,
                                         p.source, p.job, p.expires, t)),
                Tail(pending), t)

\* spend_credits_for_job run by one session without interference
spend_credits_for_job(led, bal, u, amount, job, source, t) ==
  LET effective == recalculate_effective_balance(led, u, t)
      bal1 == [bal EXCEPT ![u] = effective]
  IN IF amount <= 0 THEN [ret |-> "return", ledger |-> led, balance |-> bal, pending |-> <<>>]
     ELSE IF effective < amount
     THEN [ret |-> "insufficient_credits", ledger |-> led, balance |-> bal1, pending |-> <<>>]
     ELSE LET st == SpendLoop(led, u, SpendLots(led, u, t), 1,
                              [remaining |-> amount, pending |-> <<>>], job, source)
          IN IF st.remaining # 0
             THEN [ret |-> "insufficient_credits", ledger |-> led, balance |-> bal1,
                   pending |-> st.pending]
             ELSE [ret |-> "ok", ledger |-> Flush(led, st.pending, t),
                   balance |-> [bal1 EXCEPT ![u] = bal1[u] - amount],
                   pending |-> <<>>]

\* ------------------------------------------- sequential credit operations
RowsOf(led, u) == SelectSeq(led, LAMBDA r : r.user = u)
Room(u) ==
  /\ Len(RowsOf(ledger, u)) < MaxLedger
  /\ Len(SelectSeq(ledger, LAMBDA r : r.user = u /\ r.etype # "spend")) < MaxLots
Op(name, arg, ret) == [op |-> name, arg |-> arg, ret |-> ret]

\* db.query(CreditLedger).filter(source == source, user_id == user_id).first()
Already(led, u, source) == \E i \in 1..Len(led) : led[i].user = u /\ led[i].source = source

\* expires_at of a coupon lot (account.py)
CouponExpiresAt(sub, t) ==
  IF sub # NoSub /\ sub.plan = "business" THEN t + TopupDays
  ELSE IF sub # NoSub /\ sub.period_end # 0 THEN sub.period_end
  ELSE t + DefaultDays

\* expires_at of a positive admin row (admin.py)
AdminExpiresAt(delta, expires_days, sub, t) ==
  IF delta <= 0 THEN NoExpiry
  ELSE IF expires_days > 0 THEN t + expires_days
  ELSE IF sub # NoSub /\ sub.plan \in {"business", "agency"} THEN t + TopupDays
  ELSE IF sub # NoSub /\ sub.period_end # 0 THEN sub.period_end
  ELSE t + DefaultDays

\* another user already holds a trial lot, so every query must filter by user
SeedLedger ==
  <<CreditLedger(<<>>, U2, 1, "grant_monthly", PlanTrialCredits,
                 <<"lemonsqueezy_invoice", 1>>, NoJob, MaxTime + 1, 0)>>

Sessions == {"A", "B"}
JobOf(s) == IF s = "A" THEN 1 ELSE 2
IdleSession ==
  [pc |-> "idle", amount |-> 0, lots |-> <<>>, i |-> 0, remaining |-> 0,
   pending |-> <<>>, already |-> FALSE, arg |-> 0, ret |-> "none", calls |-> 0]

NoJobRow ==
  [status |-> "queued", stop_reason |-> "null", total_companies |-> 0,
   processed_companies |-> 0, decision_makers_found |-> 0, credits_spent |-> 0,
   llm_calls_started |-> 0, llm_calls_succeeded |-> 0, serper_calls |-> 0,
   llm_prompt_tokens |-> 0, llm_completion_tokens |-> 0, llm_total_tokens |-> 0,
   total_cost_usd |-> 0, cost_per_contact_usd |-> 0]
NoHist == [attempted |-> {}, charged |-> {}, counted |-> {}, failed_at |-> 0]
NoVal == [pc |-> "none"]
ValIdle == val = NoVal
NoLim == [pc |-> "none"]
LimIdle == lim = NoLim
NoSem == [pc |-> "none"]
SemIdle == llmsem = NoSem
NoChat == [pc |-> "none"]
ChatIdle == chat = NoChat
NoResearch == [pc |-> "none"]
ResearchIdle == rcache = NoResearch
NoPlan == [pc |-> "none"]
PlanIdle == planrun = NoPlan
NoRole == [pc |-> "none"]
NoBatch == [pc |-> "none"]
NoTtl == [pc |-> "none"]
RoleIdle == rolecall = NoRole
BatchIdle == batchrun = NoBatch
TtlIdle == ttlcache = NoTtl
LaterIdle == BatchIdle /\ TtlIdle
OtherIdle ==
  ValIdle /\ LimIdle /\ SemIdle /\ ChatIdle /\ ResearchIdle /\ PlanIdle /\ RoleIdle /\ LaterIdle

CreditInit ==
  /\ job_row = NoJobRow
  /\ companies = <<>>
  /\ concurrency = 1
  /\ runner = "none"
  /\ batch_start = 0
  /\ dms = <<>>
  /\ hist = NoHist
  /\ OtherIdle
  /\ sess = [s \in Sessions |-> IdleSession]
  /\ ledger = SeedLedger
  /\ balance = [u \in Users |-> IF u = U2 THEN PlanTrialCredits ELSE NoAccount]
  /\ redeemed = FALSE
  /\ now = 0
  /\ last = Op("init", 0, 0)

Tick ==
  /\ now < MaxTime
  /\ now' = now + 1
  /\ last' = Op("tick", 0, 0)
  /\ UNCHANGED <<ledger, balance, redeemed>>
  /\ UNCHANGED notCredit

\* variant: the recalculation also removes the user's expired rows
Recalculate_drops_expired(u) ==
  LET total == recalculate_effective_balance(ledger, u, now)
  IN /\ balance' = [balance EXCEPT ![u] = total]
     /\ ledger' = SelectSeq(ledger, LAMBDA r : r.user # u \/ NotExpired(r, now))
     /\ last' = Op("recalculate", 0, total)
     /\ UNCHANGED <<redeemed, now>>
     /\ UNCHANGED notCredit

\* POST /credits/recalculate: recalculate_effective_balance, then commit
Recalculate(u) ==
  LET total == recalculate_effective_balance(ledger, u, now)
  IN /\ balance' = [balance EXCEPT ![u] = total]
     /\ last' = Op("recalculate", 0, total)
     /\ UNCHANGED <<ledger, redeemed, now>>
     /\ UNCHANGED notCredit

\* lemonsqueezy_webhook, event subscription_payment_success
WebhookPayment(u, invoice, plan, renews_at) ==
  LET source == <<"lemonsqueezy_invoice", invoice>>
      g == grant_monthly_credits(ledger, balance, u, plan, renews_at, source, now)
  IN /\ Room(u)
     /\ IF ~Already(ledger, u, source)
        THEN /\ ledger' = g.ledger
             /\ balance' = g.balance
             /\ last' = Op("grant", PLAN_MONTHLY_CREDITS(plan), "granted")
        ELSE /\ last' = Op("grant", PLAN_MONTHLY_CREDITS(plan), "repeat")
             /\ UNCHANGED <<ledger, balance>>
     /\ UNCHANGED <<redeemed, now>>
     /\ UNCHANGED notCredit

\* lemonsqueezy_webhook, event order_created of a business or agency user
WebhookOrder(u, order, credits) ==
  LET source == <<"lemonsqueezy_order", order>>
      g == grant_business_topup(ledger, balance, u, credits, source, now)
  IN /\ Room(u)
     /\ IF ~Already(ledger, u, source)
        THEN /\ ledger' = g.ledger
             /\ balance' = g.balance
             /\ last' = Op("grant", credits, "granted")
        ELSE /\ last' = Op("grant", credits, "repeat")
             /\ UNCHANGED <<ledger, balance>>
     /\ UNCHANGED <<redeemed, now>>
     /\ UNCHANGED notCredit

\* redeem_coupon, for the one coupon assigned to the user
RedeemCoupon(u, sub) ==
  LET source == <<"coupon", 1>>
      entry == CreditLedger(ledger, u, Len(ledger) + 1, "coupon", CouponCredits,
                            source, NoJob, CouponExpiresAt(sub, now), now)
  IN /\ Room(u)
     /\ IF ~redeemed /\ ~Already(ledger, u, source)
        THEN /\ ledger' = Append(ledger, entry)
             /\ balance' = [balance EXCEPT ![u] = AcctBalance(balance, u) + CouponCredits]
             /\ redeemed' = TRUE
             /\ last' = Op("grant", CouponCredits, "granted")
        ELSE /\ last' = Op("grant", CouponCredits, "repeat")
             /\ UNCHANGED <<ledger, balance, redeemed>>
  /\ UNCHANGED notCredit
     /\ UNCHANGED now
     /\ UNCHANGED notCredit

\* admin_adjust_credits
AdminAdjust(u, delta, expires_days, sub) ==
  LET entry == CreditLedger(ledger, u, IF delta > 0 THEN Len(ledger) + 1 ELSE NoLot,
                            "admin_adjust", delta, <<"admin_adjust", Len(ledger) + 1>>,
                            NoJob, AdminExpiresAt(delta, expires_days, sub, now), now)
      led1 == Append(ledger, entry)
      total == recalculate_effective_balance(led1, u, now)
  IN /\ Room(u)
     /\ delta # 0
     /\ ledger' = led1
     /\ balance' = [balance EXCEPT ![u] = total]
     /\ last' = Op("admin_adjust", delta, total)
     /\ UNCHANGED <<redeemed, now>>
     /\ UNCHANGED notCredit

\* admin_set_credits
AdminSet(u, target, expires_days, sub) ==
  LET current == AcctBalance(balance, u)
      delta == target - current
      entry == CreditLedger(ledger, u, IF delta > 0 THEN Len(ledger) + 1 ELSE NoLot,
                            "admin_set", delta, <<"admin_set", Len(ledger) + 1>>,
                            NoJob, AdminExpiresAt(delta, expires_days, sub, now), now)
      led1 == Append(ledger, entry)
      total == recalculate_effective_balance(led1, u, now)
  IN /\ Room(u)
     /\ target >= 0
     /\ ledger' = led1
     /\ balance' = [balance EXCEPT ![u] = total]
     /\ last' = Op("admin_set", target, total)
     /\ UNCHANGED <<redeemed, now>>
     /\ UNCHANGED notCredit

\* spend_credits_for_job called with the signature it declares
Spend(u, amount) ==
  LET s == spend_credits_for_job(ledger, balance, u, amount, EngineJobId, <<"job", 0>>, now)
  IN /\ Len(RowsOf(s.ledger, u)) <= MaxLedger
     /\ ledger' = s.ledger
     /\ balance' = s.balance
     /\ last' = Op("spend", amount, s.ret)
     /\ UNCHANGED <<redeemed, now>>
     /\ UNCHANGED notCredit

CreditNext ==
  \/ Tick
  \/ Recalculate(U1)
  \/ \E inv \in Invoices, pe \in PeriodEnds : WebhookPayment(U1, inv, "trial", pe)
  \/ \E o \in Orders, c \in 1..MaxCredits : WebhookOrder(U1, o, c)
  \/ \E sub \in SubStates : RedeemCoupon(U1, sub)
  \/ \E d \in {-1, 1}, days \in {0, 2}, sub \in SubStates : AdminAdjust(U1, d, days, sub)
  \/ \E a \in 1..MaxSpend : Spend(U1, a)

Spec == CreditInit /\ [][CreditNext]_vars

\* ------------------------------------ credit operations run concurrently
\* Each session is a caller with its own SessionLocal(); a step is one SQL
\* statement or commit, which sees what the other sessions have committed.
\* The engine takes no row lock (no with_for_update) and the schema has no
\* unique index on (user_id, source).
MaxCalls == 2
Busy(s) == sess[s].pc # "idle"
CanCall(s) == sess[s].pc = "idle" /\ sess[s].calls < MaxCalls
Call(s, pc, arg) ==
  [IdleSession EXCEPT !.pc = pc, !.arg = arg, !.amount = arg,
                      !.calls = sess[s].calls + 1]
Return(s, ret) == [sess[s] EXCEPT !.pc = "idle", !.ret = ret, !.pending = <<>>]

ConcInit ==
  /\ job_row = NoJobRow
  /\ companies = <<>>
  /\ concurrency = 1
  /\ runner = "none"
  /\ batch_start = 0
  /\ dms = <<>>
  /\ hist = NoHist
  /\ OtherIdle
  /\ sess = [s \in Sessions |-> IdleSession]
  /\ ledger = SeedLedger
  /\ balance = [u \in Users |-> IF u = U2 THEN PlanTrialCredits ELSE NoAccount]
  /\ redeemed = FALSE
  /\ now = 0
  /\ last = Op("init", 0, 0)

\* spend_credits_for_job lines 119-127: recalculate (which commits) and the
\* initial balance check
SpendRecalc(s, amount) ==
  LET effective == recalculate_effective_balance(ledger, U1, now)
  IN /\ CanCall(s)
     /\ balance' = [balance EXCEPT ![U1] = effective]
     /\ sess' = [sess EXCEPT ![s] =
          IF effective < amount
          THEN [Call(s, "raised", amount) EXCEPT !.ret = "insufficient_credits"]
          ELSE [Call(s, "lots", amount) EXCEPT !.remaining = amount]]
     /\ UNCHANGED <<ledger, redeemed, now, last>>
     /\ UNCHANGED notConc

\* lines 129-135: the lots query
SpendQueryLots(s) ==
  /\ sess[s].pc = "lots"
  /\ sess' = [sess EXCEPT ![s].pc = "loop", ![s].i = 1,
                          ![s].lots = SpendLots(ledger, U1, now)]
  /\ UNCHANGED <<ledger, balance, redeemed, now, last>>
  /\ UNCHANGED notConc

\* lines 138-164: one iteration, with its lot_total query
SpendIterate(s) ==
  LET c == sess[s]
      st == SpendStep(ledger, U1, c.lots[c.i],
                      [remaining |-> c.remaining, pending |-> c.pending],
                      JobOf(s), <<"job", 0>>)
  IN /\ c.pc = "loop"
     /\ c.i <= Len(c.lots) /\ c.remaining > 0
     /\ sess' = [sess EXCEPT ![s].i = c.i + 1, ![s].remaining = st.remaining,
                             ![s].pending = st.pending]
     /\ UNCHANGED <<ledger, balance, redeemed, now, last>>
     /\ UNCHANGED notConc

\* lines 166-170: the post-loop check, then the decrement and the commit.
\* On the raise the rows added to the session stay pending in it.
SpendFinish(s) ==
  LET c == sess[s]
  IN /\ c.pc = "loop"
     /\ c.i > Len(c.lots) \/ c.remaining <= 0
     /\ IF c.remaining # 0
        THEN /\ sess' = [sess EXCEPT ![s].pc = "raised",
                                     ![s].ret = "insufficient_credits"]
             /\ UNCHANGED <<ledger, balance>>
        ELSE /\ ledger' = Flush(ledger, c.pending, now)
             /\ balance' = [balance EXCEPT ![U1] = AcctBalance(balance, U1) - c.amount]
             /\ sess' = [sess EXCEPT ![s] = Return(s, "ok")]
     /\ UNCHANGED <<redeemed, now, last>>
     /\ UNCHANGED notConc

\* the caller catches the exception and commits its session, as the Runner's
\* handler does (jobs.py 746-749): pending rows are flushed
CallerCommit(s) ==
  /\ sess[s].pc = "raised"
  /\ ledger' = Flush(ledger, sess[s].pending, now)
  /\ sess' = [sess EXCEPT ![s] = Return(s, "insufficient_credits")]
  /\ UNCHANGED <<balance, redeemed, now, last>>
  /\ UNCHANGED notConc

\* the caller closes its session instead (verify_credit_engine.py 43-44)
CallerClose(s) ==
  /\ sess[s].pc = "raised"
  /\ sess' = [sess EXCEPT ![s] = Return(s, "insufficient_credits")]
  /\ UNCHANGED <<ledger, balance, redeemed, now, last>>
  /\ UNCHANGED notConc

\* lemonsqueezy_webhook, order_created: the "already" query
OrderCheck(s, order) ==
  /\ CanCall(s)
  /\ sess' = [sess EXCEPT ![s] =
       [Call(s, "order_grant", order) EXCEPT
          !.already = Already(ledger, U1, <<"lemonsqueezy_order", order>>)]]
  /\ UNCHANGED <<ledger, balance, redeemed, now, last>>
  /\ UNCHANGED notConc

\* ... and the grant when no row was found
OrderGrant(s) ==
  LET g == grant_business_topup(ledger, balance, U1, 1,
                                <<"lemonsqueezy_order", sess[s].arg>>, now)
  IN /\ sess[s].pc = "order_grant"
     /\ IF ~sess[s].already
        THEN /\ ledger' = g.ledger /\ balance' = g.balance
             /\ sess' = [sess EXCEPT ![s] = Return(s, "granted")]
        ELSE /\ UNCHANGED <<ledger, balance>>
             /\ sess' = [sess EXCEPT ![s] = Return(s, "repeat")]
     /\ UNCHANGED <<redeemed, now, last>>
     /\ UNCHANGED notConc

\* redeem_coupon lines 97-133: the reads of the assignment and of the ledger
CouponCheck(s) ==
  /\ CanCall(s)
  /\ sess' = [sess EXCEPT ![s] =
       IF redeemed \/ Already(ledger, U1, <<"coupon", 1>>)
       THEN [Call(s, "idle", 0) EXCEPT !.ret = "repeat"]
       ELSE Call(s, "coupon_grant", 0)]
  /\ UNCHANGED <<ledger, balance, redeemed, now, last>>
  /\ UNCHANGED notConc

\* redeem_coupon lines 135-155: the row, the balance, redeemed_at, the commit
CouponGrant(s) ==
  LET entry == CreditLedger(ledger, U1, Len(ledger) + 1, "coupon", CouponCredits,
                            <<"coupon", 1>>, NoJob, CouponExpiresAt(NoSub, now), now)
  IN /\ sess[s].pc = "coupon_grant"
     /\ ledger' = Append(ledger, entry)
     /\ balance' = [balance EXCEPT ![U1] = AcctBalance(balance, U1) + CouponCredits]
     /\ redeemed' = TRUE
     /\ sess' = [sess EXCEPT ![s] = Return(s, "granted")]
     /\ UNCHANGED <<now, last>>
     /\ UNCHANGED notConc

ConcNext ==
  \/ \E s \in Sessions, a \in 1..MaxSpend : SpendRecalc(s, a)
  \/ \E s \in Sessions : SpendQueryLots(s)
  \/ \E s \in Sessions : SpendIterate(s)
  \/ \E s \in Sessions : SpendFinish(s)
  \/ \E s \in Sessions : CallerCommit(s)
  \/ \E s \in Sessions : CallerClose(s)
  \/ \E s \in Sessions, o \in Orders : OrderCheck(s, o)
  \/ \E s \in Sessions : OrderGrant(s)
  \/ \E s \in Sessions : CouponCheck(s)
  \/ \E s \in Sessions : CouponGrant(s)

SpecConc == ConcInit /\ [][ConcNext]_vars

\* ------------------------------------------------- the Runner (jobs.py)
MaxRows == 3
MaxConcurrency == 2
credits_per_company == 1
JobUser == U1
JobId == 1
Terminal == {"completed", "failed", "cancelled"}

\* kinds of input row, by what _scrape_one returns for them:
\*   blank     no company name is resolved, the row is not researched
\*   noplace   a name but no country, city or website; one candidate that passes
\*   rejected  name and place; one candidate, which the validation rejects
\*   valid     name and place; one candidate that passes
\*   error     resolving or researching the row raises
\*   unparsed  name and place; the extraction answer is not JSON, no candidate
\*   disabled  name and place; the provider answers 402 or is not configured,
\*             no call is counted and there is no candidate
\* scraper.process_company_with_trace is not part of this source: for the last
\* two kinds it is taken to end the research of the row without an exception,
\* as the specification's failure table has it; where it lets the exception
\* through, the row is of kind error
ResearchFailedQuietly == {"unparsed", "disabled"}
RowKinds == {"blank", "noplace", "rejected", "valid", "error"} \cup ResearchFailedQuietly
Researched == {"noplace", "rejected", "valid"}
Traced == Researched \cup {"unparsed"}

\* one element of batch_results: the dict _scrape_one returns, or the exception
\* gather(return_exceptions=True) puts in its place
ScrapeOne_researches_blank(kind) ==
  [exc |-> kind = "error",
   company_name |-> kind \in Researched \cup ResearchFailedQuietly,
   company_place |-> kind \in {"rejected", "valid"} \cup ResearchFailedQuietly,
   results |-> IF kind \in Researched THEN 1 ELSE 0,
   passing |-> IF kind \in {"noplace", "valid"} THEN 1 ELSE 0,
   llm_started |-> IF kind \in Traced \cup {"blank"} THEN 1 ELSE 0,
   llm_succeeded |-> IF kind \in Traced \cup {"blank"} THEN 1 ELSE 0,
   serper_calls |-> IF kind \in Traced \cup {"blank"} THEN 1 ELSE 0,
   llm_prompt_tokens |-> IF kind \in Traced THEN 1 ELSE 0,
   llm_completion_tokens |-> IF kind \in Traced THEN 1 ELSE 0,
   llm_total_tokens |-> IF kind \in Traced THEN 2 ELSE 0]
ScrapeOne(kind) ==
  [exc |-> kind = "error",
   company_name |-> kind \in Researched \cup ResearchFailedQuietly,
   company_place |-> kind \in {"rejected", "valid"} \cup ResearchFailedQuietly,
   results |-> IF kind \in Researched THEN 1 ELSE 0,
   passing |-> IF kind \in {"noplace", "valid"} THEN 1 ELSE 0,
   llm_started |-> IF kind \in Traced THEN 1 ELSE 0,
   llm_succeeded |-> IF kind \in Traced THEN 1 ELSE 0,
   serper_calls |-> IF kind \in Traced THEN 1 ELSE 0,
   llm_prompt_tokens |-> IF kind \in Traced THEN 1 ELSE 0,
   llm_completion_tokens |-> IF kind \in Traced THEN 1 ELSE 0,
   llm_total_tokens |-> IF kind \in Traced THEN 2 ELSE 0]

\* the call the Runner would make if its arguments matched the engine's signature
RunnerSpend_matching_signature(led, bal, u, amount, jobid, t) ==
  spend_credits_for_job(led, bal, u, amount, jobid, <<"job", 0>>, t)

\* spend_credits_for_job(db, user_id=, amount=, job_id=, commit=False): the engine's
\* signature (db, user_id, amount, job_id, source, now) has no parameter commit, so
\* the call raises TypeError before the first statement of the function runs
RunnerSpend(led, bal, u, amount, jobid, t) ==
  [ret |-> "TypeError", ledger |-> led, balance |-> bal, pending |-> <<>>]

Raised(sp) == sp.ret \notin {"ok", "return"}

\* the counters set to the row's figures instead of raised by them
AddCounters_overwrite(j, out) ==
  [j EXCEPT !.llm_calls_started = out.llm_started,
            !.llm_calls_succeeded = out.llm_succeeded,
            !.serper_calls = out.serper_calls,
            !.llm_prompt_tokens = out.llm_prompt_tokens,
            !.llm_completion_tokens = out.llm_completion_tokens,
            !.llm_total_tokens = out.llm_total_tokens]

\* job.x = int(job.x or 0) + int(out.get("x") or 0), for the call and token counters
AddCounters(j, out) ==
  [j EXCEPT !.llm_calls_started = @ + out.llm_started,
            !.llm_calls_succeeded = @ + out.llm_succeeded,
            !.serper_calls = @ + out.serper_calls,
            !.llm_prompt_tokens = @ + out.llm_prompt_tokens,
            !.llm_completion_tokens = @ + out.llm_completion_tokens,
            !.llm_total_tokens = @ + out.llm_total_tokens]

\* Money is counted in units of 10^-9 USD before rounding and of 10^-6 USD
\* (the six decimals of safe_round_money) once rounded and stored.
InputNanoPerToken == 20        \* LLM_INPUT_COST_PER_M = 0.02 USD per 10^6 tokens
OutputNanoPerToken == 50       \* LLM_OUTPUT_COST_PER_M = 0.05
SerperNanoPerCall == 1000000   \* SERPER_COST_PER_1K = 1.0 USD per 1000 calls
NanoPerMicro == 1000

\* round(a / b), ties to the even integer as Python's round does
RoundDiv(a, b) ==
  LET q == a \div b
      r == a % b
  IN IF 2 * r > b THEN q + 1
     ELSE IF 2 * r < b THEN q
     ELSE IF q % 2 = 0 THEN q ELSE q + 1

\* compute_job_cost_fields: total and cost per contact, each rounded on its own
compute_job_cost_fields(llm_prompt_tokens, llm_completion_tokens, serper_calls, contacts_found) ==
  LET llm == Max(0, llm_prompt_tokens) * InputNanoPerToken
             + Max(0, llm_completion_tokens) * OutputNanoPerToken
      serper == Max(0, serper_calls) * SerperNanoPerCall
      total == llm + serper
      denom == Max(1, contacts_found)
  IN [total_cost_usd |-> RoundDiv(total, NanoPerMicro),
      cost_per_contact_usd |-> RoundDiv(total, NanoPerMicro * denom)]

\* variant: the cost fields are computed before the row's counters are added
RowCounters_cost_first(j, out) ==
  LET cf == compute_job_cost_fields(j.llm_prompt_tokens, j.llm_completion_tokens,
                                    j.serper_calls, j.decision_makers_found)
  IN [AddCounters(j, out) EXCEPT !.total_cost_usd = cf.total_cost_usd,
                                 !.cost_per_contact_usd = cf.cost_per_contact_usd]

\* the counters of the row are added, then the cost fields are computed from
\* the job's totals, decision_makers_found being what it was before this row
RowCounters(j, out) ==
  LET j1 == AddCounters(j, out)
      cf == compute_job_cost_fields(j1.llm_prompt_tokens, j1.llm_completion_tokens,
                                    j1.serper_calls, j1.decision_makers_found)
  IN [j1 EXCEPT !.total_cost_usd = cf.total_cost_usd,
                !.cost_per_contact_usd = cf.cost_per_contact_usd]

\* the handler with the row whose spend raised counted as processed
CreditsExhausted_counts_row(st, j1, sp, idx, t) ==
  [st EXCEPT !.job = [j1 EXCEPT !.stop_reason = "credits_exhausted",
                                !.status = "completed",
                                !.processed_companies = @ + 1],
             !.status_dirty = TRUE, !.abort = TRUE,
             !.ledger = Flush(sp.ledger, sp.pending, t),
             !.balance = sp.balance,
             !.hist.attempted = @ \cup {idx},
             !.hist.counted = @ \cup {idx},
             !.hist.failed_at = idx]

\* the handler with a DecisionMaker of the row persisted all the same
CreditsExhausted_persists(st, j1, sp, idx, t) ==
  [st EXCEPT !.job = [j1 EXCEPT !.stop_reason = "credits_exhausted",
                                !.status = "completed",
                                !.decision_makers_found = @ + 1],
             !.status_dirty = TRUE, !.abort = TRUE,
             !.ledger = Flush(sp.ledger, sp.pending, t),
             !.balance = sp.balance,
             !.dms = Append(@, idx),
             !.hist.attempted = @ \cup {idx},
             !.hist.failed_at = idx]

\* "except Exception:" around the spend: stop_reason, status, db.commit(), abort_job, break;
\* the commit also writes what the failed call left pending in the session
CreditsExhausted(st, j1, sp, idx, t) ==
  [st EXCEPT !.job = [j1 EXCEPT !.stop_reason = "credits_exhausted",
                                !.status = "completed"],
             !.status_dirty = TRUE, !.abort = TRUE,
             !.ledger = Flush(sp.ledger, sp.pending, t),
             !.balance = sp.balance,
             !.hist.attempted = @ \cup {idx},
             !.hist.failed_at = idx]

\* the body of "for out in batch_results" for the row idx; st is the Runner's
\* session: its copy of the job, the rows it has written, and abort_job
ProcessOut(st, idx, out, t) ==
  IF st.abort THEN st
  ELSE IF out.exc
  THEN [st EXCEPT !.job.status = "failed", !.job.stop_reason = "company_error",
                  !.status_dirty = TRUE, !.abort = TRUE]
  ELSE LET is_usable_company == out.company_name /\ out.company_place
           valid_results == IF is_usable_company THEN out.passing ELSE 0
           j1 == RowCounters(st.job, out)
           sp == RunnerSpend(st.ledger, st.balance, JobUser, credits_per_company, JobId, t)
       IN IF is_usable_company /\ Raised(sp)
          THEN CreditsExhausted(st, j1, sp, idx, t)
          ELSE [st EXCEPT !.job = [j1 EXCEPT
                                     !.credits_spent =
                                        @ + (IF is_usable_company THEN credits_per_company ELSE 0),
                                     !.decision_makers_found = @ + valid_results,
                                     !.processed_companies = @ + 1],
                          !.ledger = IF is_usable_company THEN sp.ledger ELSE @,
                          !.balance = IF is_usable_company THEN sp.balance ELSE @,
                          !.dms = @ \o [k \in 1..valid_results |-> idx],
                          !.hist.attempted = IF is_usable_company THEN @ \cup {idx} ELSE @,
                          !.hist.charged = IF is_usable_company THEN @ \cup {idx} ELSE @,
                          !.hist.counted = @ \cup {idx}]

RECURSIVE ProcessBatch(_, _, _, _, _)
ProcessBatch(st, rows, i, last_row, t) ==
  IF i > last_row THEN st
  ELSE ProcessBatch(ProcessOut(st, i, ScrapeOne(rows[i]), t), rows, i + 1, last_row, t)

\* a step that starts the next batch at the last row of this one
NextBatchStart_overlapping(start, step) == start + step - 1

\* "for batch_start in range(0, len(companies), concurrency)": the next value
NextBatchStart(start, step) == start + step

\* "if job.status == PROCESSING: job.status = COMPLETED; db.commit()", the status
\* being the one the row holds when the attribute is loaded
Finish(row) == IF row.status = "processing" THEN [row EXCEPT !.status = "completed"] ELSE row

\* create_job has stored the job; the background task has not started
JobInit ==
  /\ companies \in UNION {[1..n -> RowKinds] : n \in 1..MaxRows}
  /\ concurrency \in 1..MaxConcurrency
  /\ job_row = [NoJobRow EXCEPT !.total_companies = Len(companies)]
  /\ runner = "queued"
  /\ batch_start = 0
  /\ dms = <<>>
  /\ hist = NoHist
  /\ OtherIdle
  /\ sess = [s \in Sessions |-> IdleSession]
  /\ ledger = Append(SeedLedger,
                     CreditLedger(SeedLedger, JobUser, 2, "grant_monthly", PlanTrialCredits,
                                  <<"lemonsqueezy_invoice", 2>>, NoJob, MaxTime + 1, 0))
  /\ balance = [u \in Users |-> PlanTrialCredits]
  /\ redeemed = FALSE
  /\ now = 0
  /\ last = Op("init", 0, 0)

\* the pickup without the test on cancelled
RunnerPickup_ignores_cancel ==
  /\ runner = "queued"
  /\ job_row' = [job_row EXCEPT !.status = "processing"]
  /\ runner' = "starting"
  /\ UNCHANGED <<companies, concurrency, batch_start, dms, hist>>
  /\ UNCHANGED <<creditVars, notJob>>

\* _process_job_task up to "await scraper.start()"
RunnerPickup ==
  /\ runner = "queued"
  /\ IF job_row.status = "cancelled"
     THEN /\ runner' = "done"
          /\ UNCHANGED job_row
     ELSE /\ job_row' = [job_row EXCEPT !.status = "processing"]
          /\ runner' = "starting"
  /\ UNCHANGED <<companies, concurrency, batch_start, dms, hist>>
  /\ UNCHANGED <<creditVars, notJob>>

\* from the return of scraper.start() to the first "await asyncio.gather"
RunnerBegin ==
  /\ runner = "starting"
  /\ IF job_row.status = "cancelled"
     THEN /\ runner' = "done"
          /\ UNCHANGED batch_start
     ELSE /\ runner' = "gather"
          /\ batch_start' = 1
  /\ UNCHANGED <<job_row, companies, concurrency, dms, hist>>
  /\ UNCHANGED <<creditVars, notJob>>

\* from the return of gather to the next gather, or to the end of the task
RunnerBatch ==
  /\ runner = "gather"
  /\ LET last_row == Min(batch_start + concurrency - 1, Len(companies))
         st == ProcessBatch([job |-> [job_row EXCEPT !.status = "processing"],
                             status_dirty |-> FALSE, abort |-> FALSE,
                             ledger |-> ledger, balance |-> balance,
                             dms |-> dms, hist |-> hist],
                            companies, batch_start, last_row, now)
         committed == [st.job EXCEPT !.status =
                         IF st.status_dirty THEN st.job.status ELSE job_row.status]
         more == ~st.abort /\ last_row < Len(companies) /\ committed.status # "cancelled"
     IN /\ job_row' = IF more THEN committed ELSE Finish(committed)
        /\ runner' = IF more THEN "gather" ELSE "done"
        /\ batch_start' = IF more THEN NextBatchStart(batch_start, concurrency) ELSE batch_start
        /\ ledger' = st.ledger
        /\ balance' = st.balance
        /\ dms' = st.dms
        /\ hist' = st.hist
  /\ UNCHANGED <<companies, concurrency, redeemed, now, last, notJob>>

\* POST /jobs/{job_id}/cancel
cancel_job ==
  /\ runner # "none"
  /\ job_row' = IF job_row.status \in Terminal THEN job_row
                ELSE [job_row EXCEPT !.status = "cancelled"]
  /\ UNCHANGED <<companies, concurrency, runner, batch_start, dms, hist>>
  /\ UNCHANGED <<creditVars, notJob>>

JobNext ==
  \/ RunnerPickup
  \/ RunnerBegin
  \/ RunnerBatch
  \/ cancel_job

SpecJob == JobInit /\ [][JobNext]_vars

\* ---------------------------------------- text: a str is a sequence of characters
Uppers == <<"A", "B", "C", "D", "E", "F", "G", "H", "I", "J", "K", "L", "M", "N", "O", "P", "Q", "R", "S", "T", "U", "V", "W", "X", "Y", "Z">>
Lowers == <<"a", "b", "c", "d", "e", "f", "g", "h", "i", "j", "k", "l", "m", "n", "o", "p", "q", "r", "s", "t", "u", "v", "w", "x", "y", "z">>
Digits == {"0", "1", "2", "3", "4", "5", "6", "7", "8", "9"}

\* str.lower(), one character
lower_char(c) ==
  IF \E i \in 1..26 : Uppers[i] = c THEN Lowers[CHOOSE i \in 1..26 : Uppers[i] = c] ELSE c
\* str.lower()
lower(s) == [i \in 1..Len(s) |-> lower_char(s[i])]
IsSpace(c) == c = " "
RECURSIVE lstrip(_)
lstrip(s) == IF s # <<>> /\ IsSpace(Head(s)) THEN lstrip(Tail(s)) ELSE s
RECURSIVE rstrip(_)
rstrip(s) == IF s # <<>> /\ IsSpace(s[Len(s)]) THEN rstrip(SubSeq(s, 1, Len(s) - 1)) ELSE s
\* str.strip()
strip(s) == lstrip(rstrip(s))
\* _text(raw): str(raw or "").strip()
Text(raw) == strip(raw)
\* _non_empty(raw, default)
NonEmpty(raw, default) == IF Text(raw) # <<>> THEN Text(raw) ELSE default
\* s[i:].startswith(w), i counted from 1
StartsAt(s, i, w) == i + Len(w) - 1 <= Len(s) /\ SubSeq(s, i, i + Len(w) - 1) = w
\* w in s
Contains(s, w) == \E i \in 1..(Len(s) + 1) : StartsAt(s, i, w)

\* regular expressions of the form \bword(\s+word)*\b under re.IGNORECASE
IsWordChar(c) == lower_char(c) \in {Lowers[i] : i \in 1..26} \cup Digits \cup {"_"}
\* \b between the characters i-1 and i
Boundary(s, i) ==
  (i - 1 >= 1 /\ IsWordChar(s[i - 1])) # (i <= Len(s) /\ IsWordChar(s[i]))
\* the positions a \s+ that starts at i can end before
SpacesEnd(s, i) == {j \in (i + 1)..(Len(s) + 1) : \A k \in i..(j - 1) : IsSpace(s[k])}
\* the positions a match of the words ws, separated by \s+, that starts at i can end before
RECURSIVE WordsEnd(_, _, _)
WordsEnd(s, i, ws) ==
  IF ~StartsAt(lower(s), i, ws[1]) THEN {}
  ELSE LET e == i + Len(ws[1])
       IN IF Len(ws) = 1 THEN {e}
          ELSE UNION {WordsEnd(s, j, Tail(ws)) : j \in SpacesEnd(s, e)}
\* rx.search(s) for rx = \bws[1]\s+...\s+ws[n]\b
rx_search(s, ws) ==
  \E i \in 1..Len(s) : Boundary(s, i) /\ \E e \in WordsEnd(s, i, ws) : Boundary(s, e)

\* ------------------------------------------------ decision_maker_rules.py
NEGATIVE_PATTERNS ==
  <<<<<<"a", "s", "s", "i", "s", "t", "a", "n", "t">>>>,
    <<<<"i", "n", "t", "e", "r", "n">>>>,
    <<<<"c", "o", "o", "r", "d", "i", "n", "a", "t", "o", "r">>>>,
    <<<<"r", "e", "c", "e", "p", "t", "i", "o", "n", "i", "s", "t">>>>,
    <<<<"c", "l", "e", "r", "k">>>>,
    <<<<"t", "e", "c", "h", "n", "i", "c", "i", "a", "n">>>>,
    <<<<"s", "u", "p", "p", "o", "r", "t">>>>,
    <<<<"c", "u", "s", "t", "o", "m", "e", "r">>, <<"s", "e", "r", "v", "i", "c", "e">>>>,
    <<<<"r", "e", "p", "r", "e", "s", "e", "n", "t", "a", "t", "i", "v", "e">>>>,
    <<<<"s", "p", "e", "c", "i", "a", "l", "i", "s", "t">>>>,
    <<<<"a", "s", "s", "o", "c", "i", "a", "t", "e">>>>,
    <<<<"s", "t", "a", "f", "f">>>>>>
\* (keyword, alternatives of the pattern), in the order of the list
POSITIVE_PATTERNS ==
  <<<<<<"C", "E", "O">>, {<<<<"c", "e", "o">>>>, <<<<"c", "h", "i", "e", "f">>, <<"e", "x", "e", "c", "u", "t", "i", "v", "e">>, <<"o", "f", "f", "i", "c", "e", "r">>>>}>>,
    <<<<"C", "O", "O">>, {<<<<"c", "o", "o">>>>, <<<<"c", "h", "i", "e", "f">>, <<"o", "p", "e", "r", "a", "t", "i", "n", "g">>, <<"o", "f", "f", "i", "c", "e", "r">>>>}>>,
    <<<<"C", "F", "O">>, {<<<<"c", "f", "o">>>>, <<<<"c", "h", "i", "e", "f">>, <<"f", "i", "n", "a", "n", "c", "i", "a", "l">>, <<"o", "f", "f", "i", "c", "e", "r">>>>}>>,
    <<<<"C", "T", "O">>, {<<<<"c", "t", "o">>>>, <<<<"c", "h", "i", "e", "f">>, <<"t", "e", "c", "h", "n", "o", "l", "o", "g", "y">>, <<"o", "f", "f", "i", "c", "e", "r">>>>}>>,
    <<<<"C", "I", "O">>, {<<<<"c", "i", "o">>>>, <<<<"c", "h", "i", "e", "f">>, <<"i", "n", "f", "o", "r", "m", "a", "t", "i", "o", "n">>, <<"o", "f", "f", "i", "c", "e", "r">>>>}>>,
    <<<<"C", "M", "O">>, {<<<<"c", "m", "o">>>>, <<<<"c", "h", "i", "e", "f">>, <<"m", "a", "r", "k", "e", "t", "i", "n", "g">>, <<"o", "f", "f", "i", "c", "e", "r">>>>}>>,
    <<<<"C", "h", "i", "e", "f">>, {<<<<"c", "h", "i", "e", "f">>>>}>>,
    <<<<"F", "o", "u", "n", "d", "e", "r">>, {<<<<"c", "o", "f", "o", "u", "n", "d", "e", "r">>>>, <<<<"c", "o", "-", "f", "o", "u", "n", "d", "e", "r">>>>, <<<<"c", "o", " ", "f", "o", "u", "n", "d", "e", "r">>>>, <<<<"f", "o", "u", "n", "d", "e", "r">>>>}>>,
    <<<<"O", "w", "n", "e", "r">>, {<<<<"o", "w", "n", "e", "r">>>>}>>,
    <<<<"P", "r", "e", "s", "i", "d", "e", "n", "t">>, {<<<<"p", "r", "e", "s", "i", "d", "e", "n", "t">>>>}>>,
    <<<<"M", "a", "n", "a", "g", "i", "n", "g", " ", "D", "i", "r", "e", "c", "t", "o", "r">>, {<<<<"m", "a", "n", "a", "g", "i", "n", "g">>, <<"d", "i", "r", "e", "c", "t", "o", "r">>>>}>>,
    <<<<"G", "e", "n", "e", "r", "a", "l", " ", "M", "a", "n", "a", "g", "e", "r">>, {<<<<"g", "e", "n", "e", "r", "a", "l">>, <<"m", "a", "n", "a", "g", "e", "r">>>>}>>,
    <<<<"S", "e", "n", "i", "o", "r", " ", "H", "e", "a", "d">>, {<<<<"s", "e", "n", "i", "o", "r">>, <<"h", "e", "a", "d">>>>}>>,
    <<<<"H", "e", "a", "d">>, {<<<<"h", "e", "a", "d">>>>, <<<<"h", "e", "a", "d">>, <<"o", "f">>>>}>>,
    <<<<"S", "e", "n", "i", "o", "r", " ", "D", "i", "r", "e", "c", "t", "o", "r">>, {<<<<"s", "e", "n", "i", "o", "r">>, <<"d", "i", "r", "e", "c", "t", "o", "r">>>>}>>,
    <<<<"D", "i", "r", "e", "c", "t", "o", "r">>, {<<<<"d", "i", "r", "e", "c", "t", "o", "r">>>>}>>,
    <<<<"S", "e", "n", "i", "o", "r", " ", "V", "i", "c", "e", " ", "P", "r", "e", "s", "i", "d", "e", "n", "t">>, {<<<<"s", "e", "n", "i", "o", "r">>, <<"v", "i", "c", "e">>, <<"p", "r", "e", "s", "i", "d", "e", "n", "t">>>>, <<<<"s", "v", "p">>>>}>>,
    <<<<"V", "i", "c", "e", " ", "P", "r", "e", "s", "i", "d", "e", "n", "t">>, {<<<<"v", "i", "c", "e">>, <<"p", "r", "e", "s", "i", "d", "e", "n", "t">>>>, <<<<"v", "p">>>>}>>,
    <<<<"C", "h", "a", "i", "r", "m", "a", "n">>, {<<<<"c", "h", "a", "i", "r", "m", "a", "n">>>>, <<<<"c", "h", "a", "i", "r">>>>}>>,
    <<<<"M", "a", "n", "a", "g", "i", "n", "g", " ", "P", "a", "r", "t", "n", "e", "r">>, {<<<<"m", "a", "n", "a", "g", "i", "n", "g">>, <<"p", "a", "r", "t", "n", "e", "r">>>>}>>,
    <<<<"M", "a", "n", "a", "g", "i", "n", "g", " ", "M", "e", "m", "b", "e", "r">>, {<<<<"m", "a", "n", "a", "g", "i", "n", "g">>, <<"m", "e", "m", "b", "e", "r">>>>}>>,
    <<<<"P", "a", "r", "t", "n", "e", "r">>, {<<<<"p", "a", "r", "t", "n", "e", "r">>>>}>>,
    <<<<"P", "r", "i", "n", "c", "i", "p", "a", "l">>, {<<<<"p", "r", "i", "n", "c", "i", "p", "a", "l">>>>}>>>>

NegativeHit(t) == \E k \in 1..Len(NEGATIVE_PATTERNS) : rx_search(t, NEGATIVE_PATTERNS[k])
PositiveHit(t, k) == \E ws \in POSITIVE_PATTERNS[k][2] : rx_search(t, ws)

\* is_decision_maker_title(title): <<ok, keyword>>
is_decision_maker_title(title) ==
  LET t == strip(title)
  IN IF t = <<>> THEN <<FALSE, <<>>>>
     ELSE IF NegativeHit(t) THEN <<FALSE, <<>>>>
     ELSE IF \E k \in 1..Len(POSITIVE_PATTERNS) : PositiveHit(t, k)
     THEN <<TRUE, POSITIVE_PATTERNS[CHOOSE k \in 1..Len(POSITIVE_PATTERNS) :
                                      /\ PositiveHit(t, k)
                                      /\ \A m \in 1..(k - 1) : ~PositiveHit(t, m)][1]>>
     ELSE <<FALSE, <<>>>>

\* decision_maker_query_keywords(); the quoted entries keep their quotation marks
decision_maker_query_keywords ==
  <<<<"C", "E", "O">>,
    <<"F", "o", "u", "n", "d", "e", "r">>,
    <<"\"", "C", "o", "-", "F", "o", "u", "n", "d", "e", "r", "\"">>,
    <<"O", "w", "n", "e", "r">>,
    <<"P", "r", "e", "s", "i", "d", "e", "n", "t">>,
    <<"\"", "M", "a", "n", "a", "g", "i", "n", "g", " ", "D", "i", "r", "e", "c", "t", "o", "r", "\"">>,
    <<"\"", "G", "e", "n", "e", "r", "a", "l", " ", "M", "a", "n", "a", "g", "e", "r", "\"">>,
    <<"\"", "S", "e", "n", "i", "o", "r", " ", "H", "e", "a", "d", "\"">>,
    <<"\"", "H", "e", "a", "d", " ", "o", "f", "\"">>,
    <<"\"", "S", "e", "n", "i", "o", "r", " ", "D", "i", "r", "e", "c", "t", "o", "r", "\"">>,
    <<"D", "i", "r", "e", "c", "t", "o", "r">>,
    <<"\"", "S", "e", "n", "i", "o", "r", " ", "V", "i", "c", "e", " ", "P", "r", "e", "s", "i", "d", "e", "n", "t", "\"">>,
    <<"\"", "V", "i", "c", "e", " ", "P", "r", "e", "s", "i", "d", "e", "n", "t", "\"">>,
    <<"S", "V", "P">>,
    <<"V", "P">>,
    <<"C", "O", "O">>,
    <<"C", "F", "O">>,
    <<"C", "T", "O">>,
    <<"C", "I", "O">>,
    <<"C", "M", "O">>,
    <<"P", "a", "r", "t", "n", "e", "r">>,
    <<"P", "r", "i", "n", "c", "i", "p", "a", "l">>,
    <<"\"", "M", "a", "n", "a", "g", "i", "n", "g", " ", "P", "a", "r", "t", "n", "e", "r", "\"">>,
    <<"\"", "M", "a", "n", "a", "g", "i", "n", "g", " ", "M", "e", "m", "b", "e", "r", "\"">>,
    <<"C", "h", "a", "i", "r", "m", "a", "n">>>>

\* the title without the negative patterns: any title with a keyword in it matches
title_matches_keywords_no_negative(title, keywords) ==
  LET t == strip(title)
      kw == SelectSeq([i \in 1..Len(keywords) |-> strip(keywords[i])], LAMBDA x : x # <<>>)
  IN /\ t # <<>>
     /\ kw # <<>>
     /\ \E i \in 1..Len(kw) : Contains(lower(t), lower(kw[i]))

\* title_matches_keywords(title, keywords)
title_matches_keywords(title, keywords) ==
  LET t == strip(title)
      kw == SelectSeq([i \in 1..Len(keywords) |-> strip(keywords[i])], LAMBDA x : x # <<>>)
  IN /\ t # <<>>
     /\ ~NegativeHit(t)
     /\ kw # <<>>
     /\ \E i \in 1..Len(kw) : Contains(lower(t), lower(kw[i]))


\* ------------------------------- the candidate validation of the Runner (jobs.py)
MaxResults == 2

\* titles, names and profile URLs a research result can carry
T_ceo == <<"C", "E", "O">>
T_ceo_padded == <<" ", "C", "e", "o", " ">>
T_empty == <<>>
T_ceo_intern == <<"C", "E", "O", " ", "i", "n", "t", "e", "r", "n">>
T_vp_internal == <<"V", "P", " ", "I", "n", "t", "e", "r", "n", "a", "l">>
T_homeowner == <<"H", "o", "m", "e", "o", "w", "n", "e", "r">>
T_nurse == <<"N", "u", "r", "s", "e">>
T_customer_service_vp == <<"C", "u", "s", "t", "o", "m", "e", "r", " ", " ", "S", "e", "r", "v", "i", "c", "e", " ", "V", "P">>
N_ann_lee == <<"A", "n", "n", " ", "L", "e", "e">>
N_blank == <<" ">>
N_unknown == <<"U", "n", "k", "n", "o", "w", "n">>
N_n_a_padded == <<" ", "N", "/", "A", " ">>
N_na == <<"n", "a">>
N_dash == <<"-">>
N_john_doe == <<"J", "o", "h", "n", " ", "D", "o", "e">>
N_jane_doe_upper == <<"J", "A", "N", "E", " ", "D", "O", "E">>
N_nadia == <<"N", "a", "d", "i", "a">>
U_annlee == <<"l", "i", "n", "k", "e", "d", "i", "n", ".", "c", "o", "m", "/", "i", "n", "/", "a", "n", "n", "l", "e", "e">>
U_johndoe_mixed == <<"L", "i", "n", "k", "e", "d", "I", "n", ".", "c", "o", "m", "/", "i", "n", "/", "J", "o", "h", "n", "D", "o", "e">>
U_janedoe_1 == <<"l", "i", "n", "k", "e", "d", "i", "n", ".", "c", "o", "m", "/", "i", "n", "/", "j", "a", "n", "e", "d", "o", "e", "-", "1">>
Titles == {T_ceo, T_ceo_padded, T_empty, T_ceo_intern, T_vp_internal, T_homeowner, T_nurse, T_customer_service_vp}
Names == {N_ann_lee, N_blank, N_unknown, N_n_a_padded, N_na, N_dash, N_john_doe, N_jane_doe_upper, N_nadia, <<>>}
ProfileUrls == {U_annlee, U_johndoe_mixed, U_janedoe_1, <<>>}
Candidate(title, name, profile_url) == [title |-> title, name |-> name, profile_url |-> profile_url]
\* one field varies while the others are acceptable, or all three are unacceptable
Candidates ==
  {Candidate(t, N_ann_lee, U_annlee) : t \in Titles}
    \cup {Candidate(T_ceo, n, U_annlee) : n \in Names}
    \cup {Candidate(T_ceo, N_ann_lee, u) : u \in ProfileUrls}
    \cup {Candidate(T_ceo_intern, N_john_doe, U_johndoe_mixed)}
SeqsUpTo(S, n) == UNION {[1..k -> S] : k \in 0..n}

\* job_titles of a submit request
K_owner == <<"O", "w", "n", "e", "r">>
K_vp_padded == <<" ", "v", "p">>
K_ceo_lower == <<"c", "e", "o">>
RawTitleLists ==
  {<<>>, <<<<>>>>, <<T_ceo>>, <<T_ceo, K_ceo_lower, K_vp_padded>>, <<<<>>, K_owner>>,
   <<K_vp_padded, K_owner>>}

\* the placeholder names of the validation
S_unknown == <<"u", "n", "k", "n", "o", "w", "n">>
S_n_a == <<"n", "/", "a">>
S_john_doe == <<"j", "o", "h", "n", " ", "d", "o", "e">>
S_jane_doe == <<"j", "a", "n", "e", " ", "d", "o", "e">>
S_in_johndoe == <<"l", "i", "n", "k", "e", "d", "i", "n", ".", "c", "o", "m", "/", "i", "n", "/", "j", "o", "h", "n", "d", "o", "e">>
S_in_janedoe == <<"l", "i", "n", "k", "e", "d", "i", "n", ".", "c", "o", "m", "/", "i", "n", "/", "j", "a", "n", "e", "d", "o", "e">>
S_Unknown == <<"U", "n", "k", "n", "o", "w", "n">>

\* create_job: strip, drop empties, drop repeats (case-insensitive), keep five
RECURSIVE Dedup(_, _)
Dedup(ts, seen) ==
  IF ts = <<>> THEN <<>>
  ELSE IF lower(Head(ts)) \in seen THEN Dedup(Tail(ts), seen)
  ELSE <<Head(ts)>> \o Dedup(Tail(ts), seen \cup {lower(Head(ts))})
CleanTitles(raw) == SelectSeq([i \in 1..Len(raw) |-> strip(raw[i])], LAMBDA x : x # <<>>)
FirstFive(ts) == SubSeq(ts, 1, Min(5, Len(ts)))
deduped_titles(raw_titles) == FirstFive(Dedup(CleanTitles(raw_titles), {}))

\* _process_job_task: the keywords the titles of a job are matched against
query_keywords(job_titles) ==
  IF CleanTitles(job_titles) # <<>> THEN FirstFive(CleanTitles(job_titles))
  ELSE FirstFive(decision_maker_query_keywords)

ok_title(title_candidate, keywords) ==
  IF keywords # <<>> THEN title_matches_keywords(title_candidate, keywords)
  ELSE is_decision_maker_title(title_candidate)[1]

\* the name compared as it stands, without lower-casing
PlaceholderName_case_sensitive(name_candidate) ==
  \/ name_candidate = <<>>
  \/ strip(name_candidate) \in {S_unknown, S_n_a, N_na, N_dash}
  \/ strip(name_candidate) \in {S_john_doe, S_jane_doe}

\* the two name tests of the validation
PlaceholderName(name_candidate) ==
  \/ name_candidate = <<>>
  \/ lower(strip(name_candidate)) \in {S_unknown, S_n_a, N_na, N_dash}
  \/ lower(strip(name_candidate)) \in {S_john_doe, S_jane_doe}

\* the body of "for res in results": TRUE when res is appended to valid_results
KeepCandidate(res, keywords) ==
  LET title_candidate == Text(res.title)
      name_candidate == Text(res.name)
      prof_url == lower(Text(res.profile_url))
  IN /\ ok_title(title_candidate, keywords)
     /\ ~PlaceholderName(name_candidate)
     /\ ~Contains(prof_url, S_in_johndoe)
     /\ ~Contains(prof_url, S_in_janedoe)

valid_results_of(results, is_usable_company, keywords) ==
  IF ~is_usable_company THEN <<>>
  ELSE SelectSeq(results, LAMBDA res : KeepCandidate(res, keywords))

\* the name, title and profile_url of the DecisionMaker built from res
DecisionMakerOf(res) ==
  [name |-> NonEmpty(Text(res.name), S_Unknown),
   title |-> NonEmpty(Text(res.title), S_Unknown),
   profile_url |-> Text(res.profile_url)]

\* a submit request with its job titles, and the results research will return
ValInit ==
  /\ val \in [pc : {"request"}, raw_titles : RawTitleLists, job_titles : {<<>>},
               is_usable_company : BOOLEAN, results : SeqsUpTo(Candidates, MaxResults),
               valid_results : {<<>>}, rows : {<<>>}]
  /\ LimIdle /\ SemIdle /\ ChatIdle /\ ResearchIdle /\ PlanIdle /\ RoleIdle /\ LaterIdle
  /\ job_row = NoJobRow
  /\ companies = <<>>
  /\ concurrency = 1
  /\ runner = "none"
  /\ batch_start = 0
  /\ dms = <<>>
  /\ hist = NoHist
  /\ sess = [s \in Sessions |-> IdleSession]
  /\ ledger = SeedLedger
  /\ balance = [u \in Users |-> IF u = U2 THEN PlanTrialCredits ELSE NoAccount]
  /\ redeemed = FALSE
  /\ now = 0
  /\ last = Op("init", 0, 0)

notVal == <<creditVars, concVars, jobVars, lim, llmsem, chat, rcache, planrun, rolecall, batchrun, ttlcache>>

\* create_job: 400 when no title is left, else the job with options.job_titles
CreateJobTitles ==
  /\ val.pc = "request"
  /\ val' = IF deduped_titles(val.raw_titles) = <<>>
            THEN [val EXCEPT !.pc = "rejected"]
            ELSE [val EXCEPT !.pc = "results", !.job_titles = deduped_titles(val.raw_titles)]
  /\ UNCHANGED notVal

\* the validation loop of the Runner over the results of one row
ValidateResults ==
  /\ val.pc = "results"
  /\ val' = [val EXCEPT !.pc = "validated",
                        !.valid_results = valid_results_of(val.results, val.is_usable_company,
                                                           query_keywords(val.job_titles))]
  /\ UNCHANGED notVal

\* "for res in valid_results": the DecisionMaker rows built from them
BuildDecisionMakers ==
  /\ val.pc = "validated"
  /\ val' = [val EXCEPT !.pc = "built",
                        !.rows = [i \in 1..Len(val.valid_results) |->
                                    DecisionMakerOf(val.valid_results[i])]]
  /\ UNCHANGED notVal

ValNext ==
  \/ CreateJobTitles
  \/ ValidateResults
  \/ BuildDecisionMakers

SpecVal == ValInit /\ [][ValNext]_vars


\* ------------------------------------------------ properties of the ledger
\* sum of delta over the rows 1..i of user u that are not expired at t
RECURSIVE Total(_, _, _, _)
Total(led, u, t, i) ==
  IF i = 0 THEN 0
  ELSE Total(led, u, t, i - 1)
       + (IF led[i].user = u /\ (led[i].expires = NoExpiry \/ led[i].expires > t)
          THEN led[i].delta ELSE 0)
LiveSum(led, u, t) == Total(led, u, t, Len(led))

\* sum of delta over the rows lo..hi carrying lot_id lot
RECURSIVE LotSum(_, _, _, _)
LotSum(led, lot, lo, hi) ==
  IF hi < lo THEN 0
  ELSE LotSum(led, lot, lo, hi - 1) + (IF led[hi].lot = lot THEN led[hi].delta ELSE 0)

SpendOk == last.op = "spend" /\ last.ret = "ok"
NewRows(led0, led1) == (Len(led0) + 1)..Len(led1)
\* rows of u that open a lot
LotRows(led, u) == {i \in 1..Len(led) : led[i].user = u /\ led[i].delta > 0 /\ led[i].lot # NoLot}
\* (expires_at, created_at, id) order with no-expiry lots last
EarlierLot(a, b) ==
  \/ a.expires # NoExpiry /\ b.expires = NoExpiry
  \/ /\ (a.expires = NoExpiry) = (b.expires = NoExpiry)
     /\ \/ a.expires < b.expires
        \/ a.expires = b.expires /\ a.created < b.created
        \/ a.expires = b.expires /\ a.created = b.created /\ a.id < b.id

\* C1: right after recalculate_effective_balance(user, now) returns, the
\* cached balance of the user equals the sum of delta over the user's ledger
\* rows whose expires_at is null or later than now, and so does the value
\* returned (admin_adjust and admin_set end with that call and return it).
C1_BalanceIsLedgerSum ==
  last.op \in {"recalculate", "admin_adjust", "admin_set"} =>
    /\ balance[U1] = LiveSum(ledger, U1, now)
    /\ last.ret = LiveSum(ledger, U1, now)

C1_Witness ==
  /\ last.op = "recalculate"
  /\ \E i \in 1..Len(ledger) : ledger[i].user = U1 /\ ledger[i].delta > 0
                                /\ ledger[i].expires # NoExpiry /\ ledger[i].expires <= now
  /\ \E i \in 1..Len(ledger) : ledger[i].user = U1 /\ ledger[i].etype = "spend"
  /\ balance[U1] > 0

\* C2: a successful spend consumes lots in (expires_at, created_at, id) order:
\* a lot receives a spend row only if every earlier unexpired lot that had a
\* positive remainder is fully consumed by the same call, and no spend row is
\* written against a lot that is expired at now.
FifoStep(led0, led1, t) ==
  \A n \in NewRows(led0, led1) :
    \E l \in LotRows(led0, U1) :
      /\ led0[l].lot = led1[n].lot
      /\ led0[l].expires = NoExpiry \/ led0[l].expires > t
      /\ \A m \in LotRows(led0, U1) :
           ( /\ EarlierLot(led0[m], led0[l])
             /\ led0[m].expires = NoExpiry \/ led0[m].expires > t
             /\ LotSum(led0, led0[m].lot, 1, Len(led0)) > 0 )
           => LotSum(led1, led0[m].lot, 1, Len(led1)) = 0

C2_FifoSpend == [][SpendOk' => FifoStep(ledger, ledger', now)]_vars

C2_Witness ==
  /\ SpendOk
  /\ Len(ledger) >= 4
  /\ LET n == Len(ledger)
     IN /\ ledger[n].etype = "spend" /\ ledger[n - 1].etype = "spend"
        /\ \E a, b \in LotRows(ledger, U1) :
             /\ ledger[a].lot = ledger[n - 1].lot /\ ledger[b].lot = ledger[n].lot
             /\ a > b /\ ledger[a].expires < ledger[b].expires

\* C7: a successful spend of amount > 0 appends spend rows whose deltas sum to
\* -amount and lowers the recalculated balance by amount; a grant of c credits
\* whose expires_at is later than now raises the recalculated balance by c.
SpendExact(led0, led1, amount, t) ==
  /\ \A n \in NewRows(led0, led1) : led1[n].etype = "spend" /\ led1[n].user = U1
  /\ SumDelta(SubSeq(led1, Len(led0) + 1, Len(led1))) = 0 - amount
  /\ LiveSum(led1, U1, t) = LiveSum(led0, U1, t) - amount
Granted == last.op = "grant" /\ last.ret = "granted"
GrantExact(led0, led1, c, t) == LiveSum(led1, U1, t) = LiveSum(led0, U1, t) + c

C7_SpendAndLiveGrantExact ==
  [][ /\ SpendOk' => SpendExact(ledger, ledger', last'.arg, now)
      /\ (Granted' /\ ledger'[Len(ledger')].expires > now)
           => GrantExact(ledger, ledger', last'.arg, now) ]_vars

\* C7 as stated: every grant of c credits raises the recalculated balance by c
C7_Original ==
  [][ /\ SpendOk' => SpendExact(ledger, ledger', last'.arg, now)
      /\ Granted' => GrantExact(ledger, ledger', last'.arg, now) ]_vars

C7_Witness ==
  /\ SpendOk
  /\ last.arg = 2
  /\ ledger[Len(ledger)].lot # ledger[Len(ledger) - 1].lot
  /\ ledger[Len(ledger) - 1].etype = "spend"

\* C3: under every interleaving of two concurrent spends of one user, the
\* total consumed from a lot never exceeds what the lot was granted (the sum
\* over the rows of a lot stays >= 0) and the effective balance never drops
\* below zero.
C3_NoOverdraw ==
  /\ \A l \in LotRows(ledger, U1) : LotSum(ledger, ledger[l].lot, 1, Len(ledger)) >= 0
  /\ LiveSum(ledger, U1, now) >= 0

\* C4: for any (user_id, source) at most one positive ledger row exists,
\* also when two deliveries of one webhook event or two redemptions of one
\* coupon are processed concurrently.
C4_OnePositivePerSource ==
  \A i, j \in 1..Len(ledger) :
    ( /\ ledger[i].user = ledger[j].user /\ ledger[i].source = ledger[j].source
      /\ ledger[i].delta > 0 /\ ledger[j].delta > 0 ) => i = j

\* C6: once a spend has raised InsufficientCredits, no spend row of that call
\* is committed, also not by the caller's next commit: the rows of the
\* caller's job in the ledger stay what they were.
JobRows(led, j) == SelectSeq(led, LAMBDA r : r.job = j)
C6_RaiseCommitsNothing ==
  [][\A s \in Sessions :
       sess[s].pc = "raised" => JobRows(ledger', JobOf(s)) = JobRows(ledger, JobOf(s))]_vars

\* ------------------------------------------------- properties of the Runner
Range(f) == {f[i] : i \in DOMAIN f}
Usable(i) == ScrapeOne(companies[i]).company_name /\ ScrapeOne(companies[i]).company_place
Passing(i) == IF Usable(i) THEN ScrapeOne(companies[i]).passing ELSE 0
\* total amount debited by the spend rows that carry the job's id
Debited(led, jobid) ==
  0 - SumDelta(SelectSeq(led, LAMBDA r : r.etype = "spend" /\ r.job = jobid))
AtBoundary == runner \in {"gather", "done"}

\* C5: once the job's status is completed, failed or cancelled, no step of the
\* Runner and no cancel request changes the status or any other field of the job.
C5_TerminalJobFrozen == [][job_row.status \in Terminal => job_row' = job_row]_vars

C9_SpendOnlyForValidatedRows ==
  \A i \in hist.attempted : Usable(i) /\ Passing(i) >= 1

\* C10: at every batch boundary and at job end, credits_spent equals the amount
\* debited by the ledger's spend rows of the job, and each charged row (a usable
\* row with a passing candidate whose charge the account covers) contributed
\* exactly one credit.
C10_CreditsSpentIsLedgerDebit ==
  AtBoundary =>
    /\ job_row.credits_spent = Debited(ledger, JobId)
    /\ job_row.credits_spent = credits_per_company * Cardinality(hist.charged)
    /\ \A i \in hist.attempted :
          (/\ Passing(i) >= 1
           /\ recalculate_effective_balance(ledger, JobUser, now) >= credits_per_company)
          => i \in hist.charged

\* the job was set to cancelled while the Runner was processing it
CancelledInRun == job_row.status = "cancelled" /\ runner \in {"starting", "gather"}
CounterFields ==
  {"processed_companies", "decision_makers_found", "credits_spent", "llm_calls_started",
   "llm_calls_succeeded", "serper_calls", "llm_prompt_tokens", "llm_completion_tokens",
   "llm_total_tokens"}

\* C11: a job set to cancelled while it is processing stays cancelled, the Runner
\* starts no further batch once it has observed the status, and at its end
\* processed_companies is the number of rows it drained.
C11_CancelObserved ==
  [][CancelledInRun =>
       /\ job_row'.status = "cancelled"
       /\ (runner' # runner => runner' = "done")
       /\ (runner' = "done" => job_row'.processed_companies = Cardinality(hist'.counted))]_vars

C13_CountersMonotone ==
  [][job_row.status = "processing" =>
       \A f \in CounterFields : job_row'[f] >= job_row[f]]_vars
C13_Witness ==
  /\ job_row.status = "processing"
  /\ runner = "gather"
  /\ job_row.processed_companies >= 2
  /\ job_row.llm_calls_started >= 1
  /\ job_row.llm_total_tokens >= 2

\* C14: in every reachable state of a job, processed_companies is at most
\* total_companies.
C14_ProcessedAtMostTotal == job_row.processed_companies <= job_row.total_companies
C14_Witness ==
  /\ runner = "done"
  /\ job_row.total_companies >= 2
  /\ job_row.processed_companies = job_row.total_companies
  /\ batch_start >= 2

\* ----------------------------------------------- properties of the validation
\* the maximal runs of word characters of s, as <<first, last>>
WordRuns(s) ==
  {r \in (1..Len(s)) \X (1..Len(s)) :
     /\ r[1] <= r[2]
     /\ \A k \in r[1]..r[2] : IsWordChar(s[k])
     /\ (r[1] = 1 \/ ~IsWordChar(s[r[1] - 1]))
     /\ (r[2] = Len(s) \/ ~IsWordChar(s[r[2] + 1]))}
WordOf(s, r) == lower(SubSeq(s, r[1], r[2]))
NegativeWords ==
  {<<"a", "s", "s", "i", "s", "t", "a", "n", "t">>,
   <<"i", "n", "t", "e", "r", "n">>,
   <<"c", "o", "o", "r", "d", "i", "n", "a", "t", "o", "r">>,
   <<"r", "e", "c", "e", "p", "t", "i", "o", "n", "i", "s", "t">>,
   <<"c", "l", "e", "r", "k">>,
   <<"t", "e", "c", "h", "n", "i", "c", "i", "a", "n">>,
   <<"s", "u", "p", "p", "o", "r", "t">>,
   <<"r", "e", "p", "r", "e", "s", "e", "n", "t", "a", "t", "i", "v", "e">>,
   <<"s", "p", "e", "c", "i", "a", "l", "i", "s", "t">>,
   <<"a", "s", "s", "o", "c", "i", "a", "t", "e">>,
   <<"s", "t", "a", "f", "f">>}
W_customer == <<"c", "u", "s", "t", "o", "m", "e", "r">>
W_service == <<"s", "e", "r", "v", "i", "c", "e">>
\* a word of the negative set stands in s, or "customer" and "service" with only
\* white space between them
HasNegativeWord(s) ==
  \E r \in WordRuns(s) :
    \/ WordOf(s, r) \in NegativeWords
    \/ /\ WordOf(s, r) = W_customer
       /\ \E q \in WordRuns(s) :
            /\ q[1] > r[2] + 1
            /\ \A k \in (r[2] + 1)..(q[1] - 1) : IsSpace(s[k])
            /\ WordOf(s, q) = W_service
\* one of the job's titles stands in s, letter case aside
HasJobTitle(s, job_titles) ==
  \E i \in 1..Len(job_titles) : Contains(lower(s), lower(job_titles[i]))
PlaceholderNames == {S_unknown, S_n_a, N_na, N_dash, S_john_doe, S_jane_doe}

\* C15: every DecisionMaker row built from the kept candidates has a title in
\* which one of the job's titles occurs (the job always supplies titles), and
\* no word of the negative set occurs in it.
C15_PersistedTitleMatches ==
  val.pc = "built" =>
    \A i \in 1..Len(val.rows) :
      /\ val.job_titles # <<>>
      /\ HasJobTitle(val.rows[i].title, val.job_titles)
      /\ ~HasNegativeWord(val.rows[i].title)
C15_Witness ==
  /\ val.pc = "built"
  /\ Len(val.results) = 2
  /\ val.results[1].title = T_ceo_intern
  /\ val.results[2].title = T_ceo_padded
  /\ Len(val.rows) = 1
  /\ val.rows[1].title = <<"C", "e", "o">>

\* C16: every DecisionMaker row built from the kept candidates has a non-empty
\* name that is no placeholder, letter case aside, and a profile_url in which
\* neither linkedin.com/in/johndoe nor linkedin.com/in/janedoe occurs.
C16_PersistedNameAndUrl ==
  val.pc = "built" =>
    \A i \in 1..Len(val.rows) :
      /\ val.rows[i].name # <<>>
      /\ lower(val.rows[i].name) \notin PlaceholderNames
      /\ ~Contains(lower(val.rows[i].profile_url), S_in_johndoe)
      /\ ~Contains(lower(val.rows[i].profile_url), S_in_janedoe)
C16_Witness ==
  /\ val.pc = "built"
  /\ Len(val.results) = 2
  /\ val.results[1].name = N_jane_doe_upper
  /\ val.results[2].name = N_nadia
  /\ Len(val.rows) = 1
  /\ val.rows[1].name = N_nadia


\* ------------------------------------------------------ the research pipeline
\* no credit operation, no job: the state of the database parts while a part of
\* the research pipeline is followed on its own
StoreIdle ==
  /\ job_row = NoJobRow
  /\ companies = <<>>
  /\ concurrency = 1
  /\ runner = "none"
  /\ batch_start = 0
  /\ dms = <<>>
  /\ hist = NoHist
  /\ sess = [s \in Sessions |-> IdleSession]
  /\ ledger = SeedLedger
  /\ balance = [u \in Users |-> IF u = U2 THEN PlanTrialCredits ELSE NoAccount]
  /\ redeemed = FALSE
  /\ now = 0
  /\ last = Op("init", 0, 0)

\* ------------------------------------------------- the search rate limiter
MaxPlanners == 2   \* calls of _run_serper_planner in flight at once, of any job
MaxQueries == 2    \* queries one planner call searches for
MaxClock == 3      \* ticks of time.monotonic() followed
Second == 2        \* the 1.0 of the limiter in ticks
serper_qps == 1    \* settings.serper_qps

Planners == 1..MaxPlanners

\* SerperClient(...): the client of one planner call with its own limiter
SerperClient(qps) == [qps |-> Max(1, qps), events |-> <<>>]

\* [t for t in self._events if t >= cutoff]
Prune(events, cutoff) ==
  LET Keep(t) == t >= cutoff
  IN SelectSeq(events, Keep)

\* acquire up to its sleep: the pruned events and the time to sleep for at t
sleep_for(limiter, t) ==
  LET events == Prune(limiter.events, t - Second)
  IN IF Len(events) >= limiter.qps THEN (events[1] + Second) - t ELSE 0

\* self._events.append(time.monotonic()) after the prune at t
Admit(limiter, t) == [limiter EXCEPT !.events = Append(Prune(limiter.events, t - Second), t)]

LimInit ==
  /\ lim = [pc |-> "run", clock |-> 0, posts |-> <<>>,
            planner |-> [p \in Planners |-> [pc |-> "idle", left |-> 0, wake |-> 0,
                                              serper |-> SerperClient(serper_qps)]]]
  /\ ValIdle /\ SemIdle /\ ChatIdle /\ ResearchIdle /\ PlanIdle /\ RoleIdle /\ LaterIdle
  /\ StoreIdle

notLim == <<creditVars, concVars, jobVars, val, llmsem, chat, rcache, planrun, rolecall, batchrun, ttlcache>>

\* time.monotonic() moves on
LimTick ==
  /\ lim.pc = "run"
  /\ lim.clock < MaxClock
  /\ lim' = [lim EXCEPT !.clock = @ + 1]
  /\ UNCHANGED notLim

\* _run_serper_planner up to its query loop: a new SerperClient, then the queries
run_serper_planner(p) ==
  /\ lim.pc = "run"
  /\ lim.planner[p].pc = "idle"
  /\ \E n \in 0..MaxQueries :
       lim' = [lim EXCEPT !.planner[p] = [pc |-> "search", left |-> n, wake |-> 0,
                                           serper |-> SerperClient(serper_qps)]]
  /\ UNCHANGED notLim

\* serper.search for the next query: acquire, then the POST when acquire does not sleep
search(p) ==
  LET pl == lim.planner[p]
      t == lim.clock
  IN /\ lim.pc = "run"
     /\ pl.pc = "search"
     /\ pl.left > 0
     /\ lim' = IF sleep_for(pl.serper, t) > 0
               THEN [lim EXCEPT !.planner[p].pc = "sleeping",
                                !.planner[p].wake = t + sleep_for(pl.serper, t),
                                !.planner[p].serper.events = Prune(pl.serper.events, t - Second)]
               ELSE [lim EXCEPT !.planner[p].left = @ - 1,
                                !.planner[p].serper = Admit(pl.serper, t),
                                !.posts = Append(@, t)]
     /\ UNCHANGED notLim

\* acquire after asyncio.sleep(sleep_for) returned, then the POST
search_after_sleep(p) ==
  LET pl == lim.planner[p]
      t == lim.clock
  IN /\ lim.pc = "run"
     /\ pl.pc = "sleeping"
     /\ t >= pl.wake
     /\ lim' = [lim EXCEPT !.planner[p].pc = "search",
                           !.planner[p].left = @ - 1,
                           !.planner[p].serper = Admit(pl.serper, t),
                           !.posts = Append(@, t)]
     /\ UNCHANGED notLim

\* finally: await serper.aclose()
aclose(p) ==
  /\ lim.pc = "run"
  /\ lim.planner[p].pc = "search"
  /\ lim.planner[p].left = 0
  /\ lim' = [lim EXCEPT !.planner[p].pc = "closed"]
  /\ UNCHANGED notLim

LimNext ==
  \/ LimTick
  \/ \E p \in Planners : run_serper_planner(p)
  \/ \E p \in Planners : search(p)
  \/ \E p \in Planners : search_after_sleep(p)
  \/ \E p \in Planners : aclose(p)

SpecLim == LimInit /\ [][LimNext]_vars

\* ------------------------------------------- properties of the rate limiter
\* the search POSTs initiated in the second that ends at t
PostsIn(t) == {i \in DOMAIN lim.posts : lim.posts[i] > t - Second /\ lim.posts[i] <= t}

\* C17: over any 1-second sliding window, the search HTTP calls initiated by all
\* row pipelines running at once, of all jobs together, number at most SERPER_QPS
C17_SearchRateBounded ==
  lim.pc = "run" => \A t \in 0..MaxClock : Cardinality(PostsIn(t)) <= serper_qps

\* ------------------------------------------------------ the LLM semaphore
MaxJobs == 2           \* jobs running in the process at once
MaxChats == 2          \* chat calls one job makes, from its row pipelines
llm_concurrency == 1   \* LLM_CONCURRENCY

JobIds == 1..MaxJobs
ChatIds == 1..MaxChats
Platforms == {"linux", "win32"}
ServerLoop == 0        \* the event loop the application runs in
NoLoop == -1
NoSemaphore == -1
Loops == {ServerLoop} \cup JobIds

\* process_job_task: the loop _process_job_task of job j runs in
LoopOfJob_server(platform, j) == ServerLoop
LoopOfJob(platform, j) == IF platform = "win32" THEN j ELSE ServerLoop

\* _get_llm_semaphore: the semaphores after the lookup made in loop l,
\* each semaphore given by the number of permits held
get_llm_semaphore(sems, l) ==
  IF sems[l] = NoSemaphore THEN [sems EXCEPT ![l] = 0] ELSE sems

SemInit ==
  /\ llmsem \in [pc : {"run"}, platform : Platforms,
                  loop : {[j \in JobIds |-> NoLoop]},
                  sems : {[l \in Loops |-> NoSemaphore]},
                  call : {[j \in JobIds |-> [k \in ChatIds |-> "idle"]]}]
  /\ ValIdle /\ LimIdle /\ ChatIdle /\ ResearchIdle /\ PlanIdle /\ RoleIdle /\ LaterIdle
  /\ StoreIdle

notSem == <<creditVars, concVars, jobVars, val, lim, chat, rcache, planrun, rolecall, batchrun, ttlcache>>

\* the background task of job j starts
process_job_task(j) ==
  /\ llmsem.pc = "run"
  /\ llmsem.loop[j] = NoLoop
  /\ llmsem' = [llmsem EXCEPT !.loop[j] = LoopOfJob(llmsem.platform, j)]
  /\ UNCHANGED notSem

\* _chat_completion of job j up to the first request: the semaphore of the
\* running loop, and a permit of it
chat_completion_enter(j, k) ==
  LET l == llmsem.loop[j]
      sems == get_llm_semaphore(llmsem.sems, l)
  IN /\ llmsem.pc = "run"
     /\ l # NoLoop
     /\ llmsem.call[j][k] = "idle"
     /\ sems[l] < Max(1, llm_concurrency)
     /\ llmsem' = [llmsem EXCEPT !.sems = [sems EXCEPT ![l] = @ + 1],
                                 !.call[j][k] = "in_flight"]
     /\ UNCHANGED notSem

\* _chat_completion returns or raises: the permit is given back
chat_completion_exit(j, k) ==
  LET l == llmsem.loop[j]
  IN /\ llmsem.pc = "run"
     /\ llmsem.call[j][k] = "in_flight"
     /\ llmsem' = [llmsem EXCEPT !.sems[l] = @ - 1, !.call[j][k] = "done"]
     /\ UNCHANGED notSem

SemNext ==
  \/ \E j \in JobIds : process_job_task(j)
  \/ \E j \in JobIds, k \in ChatIds : chat_completion_enter(j, k)
  \/ \E j \in JobIds, k \in ChatIds : chat_completion_exit(j, k)

SpecSem == SemInit /\ [][SemNext]_vars

\* ------------------------------------------ properties of the LLM semaphore
\* the chat calls holding a permit, of all jobs
InFlight == {jk \in JobIds \X ChatIds : llmsem.call[jk[1]][jk[2]] = "in_flight"}

\* C18: at every instant the chat-completion requests in flight, across all
\* jobs running in the process, number at most LLM_CONCURRENCY
C18_LlmInFlightBounded ==
  llmsem.pc = "run" => Cardinality(InFlight) <= llm_concurrency

\* ------------------------------------------------------ the research call
MaxSearchCalls == 2    \* largest max_search_calls a research call is given
ttl_s == 2             \* TTLCache ttl_s in ticks of the research clock

NoCall == [at |-> -1]
CompanyNames == {"acme", "bolt"}
Locations == {"", "austin"}
ResearchInputs ==
  [company_name : CompanyNames, location : Locations, deep_search : BOOLEAN,
   max_search_calls : 0..MaxSearchCalls]
\* what the final chat call answers: text that is not JSON, or a people list
InvalidJson == "invalid"
LlmReplies == {InvalidJson, <<>>, <<"ann">>, <<"ann", "bob">>}

\* the queries of the people mode: the base query, one more on deep_search with
\* a hint, then queries[:max_search_calls]
QueryCount(x) ==
  LET n == IF x.deep_search /\ x.location # "" THEN 2 ELSE 1
  IN IF x.max_search_calls = 0 THEN 0
     ELSE IF n <= x.max_search_calls THEN n ELSE x.max_search_calls

\* _run_serper_planner in people mode on input x at time t, the final chat call
\* answering reply: one search per query, one chat call, the people or the raise
run_planner_people(x, reply, t) ==
  [input |-> x, at |-> t,
   serper_calls |-> QueryCount(x),
   llm_calls |-> 1,
   raised |-> reply = InvalidJson,
   people |-> IF reply = InvalidJson THEN <<>> ELSE reply]

ResearchInit ==
  /\ rcache = [pc |-> "run", clock |-> 0, first |-> NoCall, second |-> NoCall]
  /\ ValIdle /\ LimIdle /\ SemIdle /\ ChatIdle /\ PlanIdle /\ RoleIdle /\ LaterIdle
  /\ StoreIdle

notResearch == <<creditVars, concVars, jobVars, val, lim, llmsem, chat, planrun, rolecall, batchrun, ttlcache>>

\* time.time() moves on
ResearchTick ==
  /\ rcache.pc = "run"
  /\ rcache.clock < MaxClock
  /\ rcache' = [rcache EXCEPT !.clock = @ + 1]
  /\ UNCHANGED notResearch

\* research_decision_makers(x): the first call made, then the second
research_decision_makers ==
  /\ rcache.pc = "run"
  /\ rcache.second = NoCall
  /\ \E x \in ResearchInputs, reply \in LlmReplies :
       rcache' = IF rcache.first = NoCall
                 THEN [rcache EXCEPT !.first = run_planner_people(x, reply, rcache.clock)]
                 ELSE [rcache EXCEPT !.second = run_planner_people(x, reply, rcache.clock)]
  /\ UNCHANGED notResearch

ResearchNext ==
  \/ ResearchTick
  \/ research_decision_makers

SpecResearch == ResearchInit /\ [][ResearchNext]_vars

\* ------------------------------------------- properties of the research call
\* the second call repeats the input of the first, which returned, within the TTL
RepeatedWithinTtl ==
  /\ rcache.pc = "run"
  /\ rcache.second # NoCall
  /\ ~rcache.first.raised
  /\ rcache.second.input = rcache.first.input
  /\ rcache.second.at - rcache.first.at < ttl_s

\* C19: a second research call with inputs identical to an earlier one, made
\* before the cache TTL has elapsed, returns the same people as the first call
\* and issues no search call and no LLM call
C19_RepeatedResearchIsCached ==
  RepeatedWithinTtl =>
    /\ ~rcache.second.raised
    /\ rcache.second.people = rcache.first.people
    /\ rcache.second.serper_calls = 0
    /\ rcache.second.llm_calls = 0

\* --------------------------------------------------------- the chat call
MaxRetries == 3    \* largest LLM_MAX_RETRIES the call is run with

RetryStatuses == {408, 409, 425, 429, 500, 502, 503, 504}
Statuses == {400, 401, 402, 404} \cup RetryStatuses
TransportErrors == {"APIConnectionError", "APITimeoutError"}
NoOutcome == [kind |-> "none", status |-> 0, names_response_format |-> FALSE]
\* what one request can come to: a response, an APIStatusError with its status
\* and whether its message holds "response_format" (RateLimitError is the
\* APIStatusError of 429), or a transport error
Outcomes ==
  {[kind |-> "response", status |-> 200, names_response_format |-> FALSE]}
  \cup [kind : {"APIStatusError"}, status : Statuses, names_response_format : BOOLEAN]
  \cup [kind : TransportErrors, status : {0}, names_response_format : {FALSE}]

\* status in {408, ...} and attempt < max_retries
ShouldRetry_any_status(status, attempt, max_retries) == attempt < max_retries
ShouldRetry(status, attempt, max_retries) ==
  status \in RetryStatuses /\ attempt < max_retries

\* continue: the next attempt of range(1, max_retries + 1), or "raise last_err"
\* once the range is used up
Continue(c, o, slept) ==
  [c EXCEPT !.pc = IF c.attempt + 1 < c.max_retries THEN "loop" ELSE "raised",
            !.exc = IF c.attempt + 1 < c.max_retries THEN "none" ELSE o.kind,
            !.attempt = @ + 1,
            !.last = o,
            !.sleeps = @ + (IF slept THEN 1 ELSE 0)]

\* "return response" and "raise"
ReturnResponse(c, o) == [c EXCEPT !.pc = "returned", !.attempt = @ + 1, !.last = o]
RaiseError(c, o, exc) == [c EXCEPT !.pc = "raised", !.exc = exc, !.attempt = @ + 1, !.last = o]

\* one turn of the loop of _chat_completion: the request of attempt
\* c.attempt + 1 comes to o
Attempt(c, o) ==
  IF o.kind = "response" THEN ReturnResponse(c, o)
  ELSE IF o.kind = "APIStatusError"
  THEN IF o.status = 402 THEN RaiseError(c, o, "LLMDisabledError")
       ELSE IF o.status = 400 /\ c.include_response_format /\ o.names_response_format
       THEN [Continue(c, o, FALSE) EXCEPT !.include_response_format = FALSE,
                                          !.fallbacks = @ + 1]
       ELSE IF ShouldRetry(o.status, c.attempt + 1, c.max_retries)
       THEN Continue(c, o, TRUE)
       ELSE RaiseError(c, o, o.kind)
  ELSE IF c.attempt + 1 < c.max_retries
       THEN Continue(c, o, TRUE)
       ELSE RaiseError(c, o, o.kind)

\* a chat call about to make its first request, for each LLM_MAX_RETRIES
ChatInit ==
  /\ chat \in [pc : {"loop"}, max_retries : {Max(1, n) : n \in 0..MaxRetries},
                attempt : {0}, include_response_format : {TRUE}, last : {NoOutcome},
                exc : {"none"}, fallbacks : {0}, sleeps : {0}]
  /\ ValIdle /\ LimIdle /\ SemIdle /\ ResearchIdle /\ PlanIdle /\ RoleIdle /\ LaterIdle
  /\ StoreIdle

notChat == <<creditVars, concVars, jobVars, val, lim, llmsem, rcache, planrun, rolecall, batchrun, ttlcache>>

\* await self._client.chat.completions.create(...) and what follows it
chat_completion_attempt ==
  /\ chat.pc = "loop"
  /\ \E o \in Outcomes : chat' = Attempt(chat, o)
  /\ UNCHANGED notChat

ChatNext == chat_completion_attempt

SpecChat == ChatInit /\ [][ChatNext]_vars

\* ----------------------------------------------- properties of the chat call
RetryableSet == {408, 409, 425, 429, 500, 502, 503, 504}
\* the latest request ended in a status of the retry set, or in a transport error
LastRetryable ==
  \/ chat.last.kind = "APIStatusError" /\ chat.last.status \in RetryableSet
  \/ chat.last.kind \in {"APIConnectionError", "APITimeoutError"}
\* the latest request ended in a 400 naming response_format, the first of the call
LastFormatRefused ==
  /\ chat.last.kind = "APIStatusError" /\ chat.last.status = 400
  /\ chat.last.names_response_format
  /\ chat.fallbacks = 1 /\ ~chat.include_response_format
\* a further attempt is coming
Retrying == chat.pc = "loop" /\ chat.attempt >= 1
\* the call raised in the attempt that got the status
RaisedAtOnce == chat.pc = "raised" /\ chat.exc # "none"

\* C20 as stated: a further attempt only after a status of the retry set or a
\* transport error and while fewer than max_retries attempts were made; 402
\* raises ProviderDisabled at once, any other status raises at once, and the
\* call ends after at most max_retries attempts
C20_Original ==
  chat.pc # "none" =>
    /\ Retrying => LastRetryable /\ chat.attempt < chat.max_retries
    /\ (chat.last.kind = "APIStatusError" /\ chat.last.status = 402)
         => chat.pc = "raised" /\ chat.exc = "LLMDisabledError"
    /\ (chat.last.kind = "APIStatusError" /\ chat.last.status \notin RetryableSet)
         => RaisedAtOnce
    /\ chat.attempt <= chat.max_retries
    /\ chat.attempt = chat.max_retries => chat.pc \in {"returned", "raised"}

\* C20: a further attempt only while fewer than max_retries attempts were made
\* and only after a status of the retry set, a transport error, or the first 400
\* of the call whose message names response_format (the call then goes on
\* without response_format); 402 raises LLMDisabledError at once, any other
\* status raises at once, and the call ends after at most max_retries attempts
C20_RetryPolicy ==
  chat.pc # "none" =>
    /\ Retrying => (LastRetryable \/ LastFormatRefused) /\ chat.attempt < chat.max_retries
    /\ (chat.last.kind = "APIStatusError" /\ chat.last.status = 402)
         => chat.pc = "raised" /\ chat.exc = "LLMDisabledError"
    /\ (chat.last.kind = "APIStatusError" /\ chat.last.status \notin RetryableSet
        /\ ~LastFormatRefused)
         => RaisedAtOnce
    /\ chat.fallbacks <= 1
    /\ chat.attempt <= chat.max_retries
    /\ chat.attempt = chat.max_retries => chat.pc \in {"returned", "raised"}

\* a call of three attempts: the 400 of response_format, then 503 twice
C20_Witness ==
  /\ chat.pc = "raised"
  /\ chat.max_retries = 3
  /\ chat.attempt = 3
  /\ chat.fallbacks = 1
  /\ chat.sleeps = 1
  /\ chat.last.status = 503

\* ------------------------------------------------- one run of the planner
\* what serper.search comes to for one query
SearchOutcomes == {"ok", "not_configured", "request_failed", "http_error", "invalid_json"}
\* what a chat call of the planner comes to
PlanReplies == {"json", "LLMDisabledError", "APIStatusError"}
FinalReplies == {"json", "not_json", "LLMDisabledError", "APIStatusError"}

\* SerperClient.search: every failure is raised as SerperError
serper_search(o) == IF o = "ok" THEN [raised |-> "none", result |-> "result"]
                    ELSE [raised |-> "SerperError", result |-> "none"]

\* the query loop with the SerperError of a query left to propagate
PlannerSearch_propagates(p, o) ==
  IF serper_search(o).raised = "none"
  THEN [p EXCEPT !.outcomes = Append(@, o), !.serper_results = Append(@, "result")]
  ELSE [p EXCEPT !.outcomes = Append(@, o), !.pc = "raised", !.exc = "SerperError"]

\* one turn of "for qobj in queries": the search, "except SerperError as e:
\* result = {"error": str(e)}", serper_results.append
PlannerSearch(p, o) ==
  [p EXCEPT !.outcomes = Append(@, o),
            !.serper_results = Append(@, IF serper_search(o).raised = "none"
                                         THEN serper_search(o).result ELSE "error")]

\* the final chat call and what is made of its answer: the payload, or
\* RuntimeError("LLM returned invalid JSON"), or the exception of the call
PlannerFinal(p, reply) ==
  [p EXCEPT !.final_calls = @ + 1,
            !.pc = IF reply = "json" THEN "returned" ELSE "raised",
            !.exc = IF reply = "json" THEN "none"
                    ELSE IF reply = "not_json" THEN "RuntimeError" ELSE reply]

\* variant: the list of queries is not cut
CutQueries_keeps_all(planned, max_search_calls) == planned
\* "queries = queries[:max_search_calls] if max_search_calls else []", by length
CutQueries(planned, max_search_calls) ==
  IF max_search_calls # 0 THEN Min(planned, max_search_calls) ELSE 0

\* the queries a mode can come to before the cut: the base query and the deep
\* one in people mode, what the plan lists (or the default query) in company mode
PlannedQueries(parse_mode) == IF parse_mode = "people" THEN 1..2 ELSE 1..(MaxQueries + 1)

\* a call of _run_serper_planner with its mode, its max_search_calls (already
\* max(0, int(...))) and the number of its queries
PlanInit ==
  /\ planrun \in UNION {{[pc |-> "start", parse_mode |-> m, max_search_calls |-> c,
                           queries |-> CutQueries(k, c), issued |-> 0, in_flight |-> 0,
                           outcomes |-> <<>>, serper_results |-> <<>>, plan_calls |-> 0,
                           final_calls |-> 0, exc |-> "none"] :
                              c \in 0..MaxQueries, k \in PlannedQueries(m)} :
                         m \in {"people", "company"}}
  /\ ValIdle /\ LimIdle /\ SemIdle /\ ChatIdle /\ ResearchIdle /\ RoleIdle /\ LaterIdle
  /\ StoreIdle

notPlan == <<creditVars, concVars, jobVars, val, lim, llmsem, chat, rcache, rolecall, batchrun, ttlcache>>

\* up to the query loop: the queries built in people mode, asked of the
\* planning chat call in company mode
planner_plan ==
  /\ planrun.pc = "start"
  /\ IF planrun.parse_mode = "people"
     THEN planrun' = [planrun EXCEPT !.pc = "queries"]
     ELSE \E reply \in PlanReplies :
            planrun' = [planrun EXCEPT !.plan_calls = @ + 1,
                                       !.pc = IF reply = "json" THEN "queries" ELSE "raised",
                                       !.exc = IF reply = "json" THEN "none" ELSE reply]
  /\ UNCHANGED notPlan

\* the next turn of the loop reaches "await serper.search(...)": the request of
\* the next query is issued
planner_issue ==
  /\ planrun.pc = "queries"
  /\ planrun.in_flight = 0
  /\ planrun.issued < planrun.queries
  /\ planrun' = [planrun EXCEPT !.issued = @ + 1, !.in_flight = 1]
  /\ UNCHANGED notPlan

\* the search awaited returns or raises
planner_search ==
  /\ planrun.pc = "queries"
  /\ planrun.in_flight = 1
  /\ \E o \in SearchOutcomes :
       planrun' = [PlannerSearch(planrun, o) EXCEPT !.in_flight = 0]
  /\ UNCHANGED notPlan

\* after the loop: the extraction call, then return or raise
planner_final ==
  /\ planrun.pc = "queries"
  /\ planrun.in_flight = 0
  /\ planrun.issued = planrun.queries
  /\ \E reply \in FinalReplies : planrun' = PlannerFinal(planrun, reply)
  /\ UNCHANGED notPlan

PlanNext ==
  \/ planner_plan
  \/ planner_issue
  \/ planner_search
  \/ planner_final

SpecPlan == PlanInit /\ [][PlanNext]_vars

\* ---------------------------------------------- properties of the planner
SearchFailed(i) == planrun.outcomes[i] # "ok"

\* C21: a failing search call never aborts the research of a row: its error is
\* recorded as the result of that query, the remaining queries are still
\* executed, and the extraction LLM call is still issued
C21_SearchFailureIsRecorded ==
  planrun.pc # "none" =>
    /\ planrun.exc # "SerperError"
    /\ \A i \in DOMAIN planrun.outcomes :
         /\ i \in DOMAIN planrun.serper_results
         /\ SearchFailed(i) <=> planrun.serper_results[i] = "error"
    /\ (planrun.pc \in {"returned", "raised"} /\ \E i \in DOMAIN planrun.outcomes : SearchFailed(i))
         => /\ Len(planrun.serper_results) = planrun.queries
            /\ planrun.final_calls = 1

\* two queries, both searches failed, and the extraction returned
C21_Witness ==
  /\ planrun.pc = "returned"
  /\ planrun.queries = 2
  /\ planrun.outcomes = <<"http_error", "request_failed">>
  /\ planrun.serper_results = <<"error", "error">>
  /\ planrun.final_calls = 1


\* ---------------------------------------- properties of the Runner: failures of a row
Rows == 1..Len(companies)
Handled == hist.counted \cup hist.attempted
RowsOfKind(kind) == {i \in Rows : companies[i] = kind}
\* the rows of the batch the Runner is waiting for
InFlightRows ==
  IF runner = "gather"
  THEN batch_start..Min(batch_start + concurrency - 1, Len(companies))
  ELSE {}
\* a step of the Runner that handles the results of a batch
BatchStep == runner = "gather" /\ (runner' = "done" \/ batch_start' # batch_start)

\* C22: a row whose extraction answer cannot be parsed as JSON yields no
\* DecisionMaker, does not end the job (neither as failed nor by its own spend),
\* and is counted once the Runner has handled it, so that the rows after it are
\* handled as if it had produced nothing.
C22_UnparsedRowYieldsNothing ==
  \A i \in RowsOfKind("unparsed") :
     /\ i \notin Range(dms)
     /\ hist.failed_at # i
     /\ i \in Handled => i \in hist.counted
     /\ job_row.status = "failed" => RowsOfKind("error") # {}

\* C23: a row researched while the provider answers 402 or is not configured is
\* not usable: it yields no DecisionMaker, no spend is attempted for it, and it
\* does not end the job.
C23_DisabledRowIsNotUsable ==
  \A i \in RowsOfKind("disabled") :
     /\ i \notin Range(dms)
     /\ i \notin hist.attempted
     /\ hist.failed_at # i
     /\ job_row.status = "failed" => RowsOfKind("error") # {}

\* C24: when a row of the batch in flight raised, the step that handles the
\* batch ends the job as failed with stop_reason company_error and starts no
\* later batch; the rows of later batches are never counted, persisted or charged.
C24_RowExceptionFailsJob ==
  [][(BatchStep /\ InFlightRows \cap RowsOfKind("error") # {}) =>
       /\ runner' = "done"
       /\ job_row'.status = "failed"
       /\ job_row'.stop_reason = "company_error"
       /\ \A j \in Rows : (\A k \in InFlightRows : j > k) =>
            j \notin hist'.counted \cup hist'.attempted \cup Range(dms')]_vars

\* C25: a row with no company name is counted with the rows of its batch, and
\* no research call, DecisionMaker or spend is made for it: the job's call
\* counters come from the other rows only.
C25_BlankRowCountedOnly ==
  /\ \A i \in RowsOfKind("blank") :
        /\ i \notin Range(dms)
        /\ i \notin hist.attempted
        /\ i \notin hist.charged
        /\ (\E j \in Handled : j > i) => i \in hist.counted
        /\ (runner = "done" /\ job_row.status = "completed" /\ job_row.stop_reason = "null")
              => i \in hist.counted
  /\ job_row.processed_companies = Cardinality(hist.counted)
  /\ job_row.serper_calls <= Cardinality(Handled \ RowsOfKind("blank"))
  /\ job_row.llm_calls_started <= Cardinality(Handled \ RowsOfKind("blank"))

C25_Witness ==
  /\ runner = "done"
  /\ companies = <<"blank", "rejected">>
  /\ hist.counted = {1}
  /\ job_row.processed_companies = 1
  /\ job_row.serper_calls = 1

\* C26: when the job is cancelled at pickup the task returns: the job row, the
\* DecisionMakers, the ledger and the balance are as they were, and no row is
\* started.
C26_CancelledAtPickupUntouched ==
  [][(runner = "queued" /\ job_row.status = "cancelled") =>
       /\ job_row' = job_row
       /\ runner' \in {"queued", "done"}
       /\ batch_start' = batch_start
       /\ hist' = hist
       /\ dms' = dms
       /\ ledger' = ledger
       /\ balance' = balance]_vars

C26_Witness ==
  /\ runner = "done"
  /\ job_row = [NoJobRow EXCEPT !.status = "cancelled", !.total_companies = Len(companies)]
  /\ batch_start = 0
  /\ hist = NoHist
  /\ dms = <<>>


\* ---------------------------------------- the Runner with calls that raise
\* "except Exception": job.status = FAILED, then db.commit(), which returns or
\* raises; when it raises the row keeps what was committed last
OuterHandler_commit_returns(row, commit_returns) == [row EXCEPT !.status = "failed"]
OuterHandler(row, commit_returns) ==
  IF commit_returns THEN [row EXCEPT !.status = "failed"] ELSE row

\* "await scraper.start()" raises (the browser does not launch)
RunnerStartRaises ==
  /\ runner = "starting"
  /\ \E commit_returns \in BOOLEAN : job_row' = OuterHandler(job_row, commit_returns)
  /\ runner' = "done"
  /\ UNCHANGED <<companies, concurrency, batch_start, dms, hist>>
  /\ UNCHANGED <<creditVars, notJob>>

\* the "db.commit()" that ends a batch raises: the transaction is rolled back,
\* so nothing of the batch is stored
RunnerCommitRaises ==
  /\ runner = "gather"
  /\ \E commit_returns \in BOOLEAN : job_row' = OuterHandler(job_row, commit_returns)
  /\ runner' = "done"
  /\ UNCHANGED <<companies, concurrency, batch_start, dms, hist>>
  /\ UNCHANGED <<creditVars, notJob>>

RunNext ==
  \/ RunnerPickup
  \/ RunnerBegin
  \/ RunnerBatch
  \/ cancel_job
  \/ RunnerStartRaises
  \/ RunnerCommitRaises

SpecRun == JobInit /\ [][RunNext]_vars

\* the background task is scheduled and every call it awaits returns or raises;
\* nothing obliges a client to cancel
RunFairness ==
  /\ WF_vars(RunnerPickup)
  /\ WF_vars(RunnerBegin \/ RunnerStartRaises)
  /\ WF_vars(RunnerBatch \/ RunnerCommitRaises)
SpecRunFair == SpecRun /\ RunFairness

\* C27: a run that has picked up a queued job ends, and when it has ended the
\* job's status is completed, failed or cancelled.
C27_PickedUpJobEnds ==
  (runner = "starting") ~> (runner = "done" /\ job_row.status \in Terminal)

\* the run always ends; what fails is the status it leaves
RunEnds == (runner = "starting") ~> (runner = "done")


\* ---------------------------------------- properties of the ledger: signs and history
\* C28: every ledger row with a negative delta is a spend row.
C28_NegativeDeltaIsSpend ==
  \A i \in 1..Len(ledger) : ledger[i].delta < 0 => ledger[i].etype = "spend"

\* C29: the ledger is append-only: every step leaves the rows that exist as they
\* are, in place, and at most adds rows after them.
C29_LedgerAppendOnly ==
  [][/\ Len(ledger') >= Len(ledger)
     /\ SubSeq(ledger', 1, Len(ledger)) = ledger]_vars

\* a grant, a coupon or admin row and a spend have been written after the seed,
\* and a row of the user has expired
C29_Witness ==
  /\ Len(ledger) >= Len(SeedLedger) + 3
  /\ \E i \in 1..Len(ledger) : ledger[i].etype = "spend"
  /\ \E i \in 1..Len(ledger) : ledger[i].etype \in {"coupon", "admin_adjust"}
  /\ \E i \in 1..Len(ledger) : ledger[i].user = U1 /\ ~NotExpired(ledger[i], now)
  /\ last.op = "recalculate"


\* ---------------------------------------- the role of a request
\* An optional str is <<>> for None and <<s>> for the str s.
PyNone == <<>>
Some(s) == <<s>>
\* str(x or "")
str_or_empty(x) == IF x = PyNone THEN <<>> ELSE x[1]
S_admin == <<"a", "d", "m", "i", "n">>
S_user == <<"u", "s", "e", "r">>
S_support == <<"s", "u", "p", "p", "o", "r", "t">>
RoleInputs ==
  {PyNone, Some(<<>>), Some(<<" ">>), Some(S_admin), Some(<<" ", "A", "d", "m", "i", "n", " ">>),
   Some(S_user), Some(<<"S", "u", "p", "p", "o", "r", "t">>)}

\* variant: the admin e-mail is looked at before the database role
decide_role_email_first(email_is_admin, claim_is_admin, db_role, supabase_role) ==
  LET dbr == lower(strip(str_or_empty(db_role)))
  IN IF email_is_admin THEN <<S_admin, "admin_emails">>
     ELSE IF dbr = S_admin THEN <<S_admin, "db_profile">>
     ELSE IF claim_is_admin THEN <<S_admin, "jwt_claim">>
     ELSE IF lower(strip(str_or_empty(supabase_role))) = S_admin
          THEN <<S_admin, "supabase_profiles">>
     ELSE IF dbr # <<>> THEN <<dbr, "db_profile">>
     ELSE <<S_user, "default">>

\* _decide_role
decide_role(email_is_admin, claim_is_admin, db_role, supabase_role) ==
  LET dbr == lower(strip(str_or_empty(db_role)))
  IN IF dbr = S_admin THEN <<S_admin, "db_profile">>
     ELSE IF email_is_admin THEN <<S_admin, "admin_emails">>
     ELSE IF claim_is_admin THEN <<S_admin, "jwt_claim">>
     ELSE IF lower(strip(str_or_empty(supabase_role))) = S_admin
          THEN <<S_admin, "supabase_profiles">>
     ELSE IF dbr # <<>> THEN <<dbr, "db_profile">>
     ELSE <<S_user, "default">>

NoDecision == <<<<>>, "none">>

RoleInit ==
  /\ rolecall \in [pc : {"call"}, email_is_admin : BOOLEAN, claim_is_admin : BOOLEAN,
                    db_role : RoleInputs, supabase_role : RoleInputs, ret : {NoDecision}]
  /\ ValIdle /\ LimIdle /\ SemIdle /\ ChatIdle /\ ResearchIdle /\ PlanIdle
  /\ LaterIdle
  /\ StoreIdle

notRole == <<creditVars, concVars, jobVars, val, lim, llmsem, chat, rcache, planrun, batchrun, ttlcache>>

\* one call of _decide_role
decide_role_call ==
  /\ rolecall.pc = "call"
  /\ rolecall' = [rolecall EXCEPT
                    !.pc = "returned",
                    !.ret = decide_role(rolecall.email_is_admin, rolecall.claim_is_admin,
                                        rolecall.db_role, rolecall.supabase_role)]
  /\ UNCHANGED notRole

RoleNext == decide_role_call

SpecRole == RoleInit /\ [][RoleNext]_vars

\* a role of admin, read as the code reads a role: trimmed and in lower case
RoleIsAdmin(x) == x # PyNone /\ lower(strip(x[1])) = S_admin
RoleIsEmpty(x) == x = PyNone \/ strip(x[1]) = <<>>

\* C30: for every combination of inputs the first rule that applies decides:
\* a database role of admin, then an admin e-mail, then a JWT admin claim, then a
\* Supabase profile role of admin, each giving admin with its own reason; failing
\* these the database role when it is not empty, with reason db_profile;
\* failing that user, with reason default.
C30_RolePriority ==
  rolecall.pc = "returned" =>
    LET c == rolecall
        db == RoleIsAdmin(c.db_role)
        em == c.email_is_admin
        cl == c.claim_is_admin
        su == RoleIsAdmin(c.supabase_role)
    IN /\ db => c.ret = <<S_admin, "db_profile">>
       /\ (~db /\ em) => c.ret = <<S_admin, "admin_emails">>
       /\ (~db /\ ~em /\ cl) => c.ret = <<S_admin, "jwt_claim">>
       /\ (~db /\ ~em /\ ~cl /\ su) => c.ret = <<S_admin, "supabase_profiles">>
       /\ (~db /\ ~em /\ ~cl /\ ~su /\ ~RoleIsEmpty(c.db_role)) =>
             /\ c.ret[2] = "db_profile"
             /\ c.ret[1] = lower(strip(c.db_role[1]))
             /\ c.ret[1] \notin {<<>>, S_admin}
       /\ (~db /\ ~em /\ ~cl /\ ~su /\ RoleIsEmpty(c.db_role)) => c.ret = <<S_user, "default">>

\* every rule applies at once and the database role decides
C30_Witness ==
  /\ rolecall.pc = "returned"
  /\ rolecall.db_role = Some(<<" ", "A", "d", "m", "i", "n", " ">>)
  /\ rolecall.email_is_admin
  /\ rolecall.claim_is_admin
  /\ rolecall.supabase_role = Some(S_admin)
  /\ rolecall.ret = <<S_admin, "db_profile">>


\* ----------------------------------- the chat call: giving up response_format
\* a step in which a request sent with response_format comes to a 400 whose
\* message names response_format
FormatRefusedStep ==
  /\ chat.pc = "loop"
  /\ chat.include_response_format
  /\ chat'.attempt = chat.attempt + 1
  /\ chat'.last.kind = "APIStatusError"
  /\ chat'.last.status = 400
  /\ chat'.last.names_response_format

\* C31: a request sent with response_format that fails with a 400 naming
\* response_format is followed by a further attempt without response_format,
\* however many attempts were made before it, and once the call has given up
\* response_format no later attempt sends it.
C31_FormatFallback ==
  [][/\ FormatRefusedStep => chat'.pc = "loop" /\ ~chat'.include_response_format
     /\ (chat.pc = "loop" /\ ~chat.include_response_format) => ~chat'.include_response_format]_vars

\* the same, for a refusal that is not the call's last attempt
FormatFallbackBeforeLast ==
  [][/\ (FormatRefusedStep /\ chat.attempt + 1 < chat.max_retries)
          => chat'.pc = "loop" /\ ~chat'.include_response_format
     /\ (chat.pc = "loop" /\ ~chat.include_response_format) => ~chat'.include_response_format]_vars


\* ---------------------------------------- the batch loop, pipeline by pipeline
MaxBatchRows == 4     \* rows of the job whose batches are followed
JobConcurrencyCap == 500
\* concurrency = max(1, min(int(JOB_CONCURRENCY), 500))
JobConcurrency(env) == Max(1, Min(env, JobConcurrencyCap))

\* variant: one gather over every row that is left
Batch_all_remaining(start, step, n) == start..n
\* range(batch_start, min(batch_start + concurrency, len(companies))), 1-based
Batch(start, step, n) == start..Min(start + step - 1, n)

\* the rows of the batch handled before the result loop breaks: all of them, or
\* those before the first row that raised
HandledBefore(rows, failed) ==
  {i \in rows : \A j \in rows \cap failed : i < j}

BatchInit ==
  /\ batchrun \in [pc : {"loop"}, n : 1..MaxBatchRows,
                    concurrency : {JobConcurrency(env) : env \in 0..MaxConcurrency},
                    batch_start : {1}, started : {{}}, finished : {{}}, failed : {{}},
                    committed : {{}}]
  /\ ValIdle /\ LimIdle /\ SemIdle /\ ChatIdle /\ ResearchIdle /\ PlanIdle /\ RoleIdle
  /\ TtlIdle
  /\ StoreIdle

notBatch == <<creditVars, concVars, jobVars, val, lim, llmsem, chat, rcache, planrun, rolecall,
              ttlcache>>

\* the top of the loop: db.refresh(job), break when cancelled, else build the
\* batch and hand its coroutines to asyncio.gather, which starts them all
batch_gather ==
  /\ batchrun.pc = "loop"
  /\ \E cancelled \in BOOLEAN :
       IF cancelled
       THEN batchrun' = [batchrun EXCEPT !.pc = "done"]
       ELSE batchrun' = [batchrun EXCEPT
                           !.pc = "gather",
                           !.started = @ \cup Batch(batchrun.batch_start, batchrun.concurrency,
                                                    batchrun.n)]
  /\ UNCHANGED notBatch

\* one _scrape_one coroutine ends, by returning or by raising
scrape_one_ends(i, raises) ==
  /\ batchrun.pc = "gather"
  /\ i \in batchrun.started \ batchrun.finished
  /\ batchrun' = [batchrun EXCEPT !.finished = @ \cup {i},
                                  !.failed = IF raises THEN @ \cup {i} ELSE @]
  /\ UNCHANGED notBatch

\* gather returns once every coroutine has ended; the result loop runs, the
\* counters are committed, and the loop goes on unless abort_job is set
batch_results ==
  /\ batchrun.pc = "gather"
  /\ batchrun.started \subseteq batchrun.finished
  /\ LET rows == Batch(batchrun.batch_start, batchrun.concurrency, batchrun.n)
         abort_job == rows \cap batchrun.failed # {}
         next == NextBatchStart(batchrun.batch_start, batchrun.concurrency)
     IN batchrun' = [batchrun EXCEPT
                       !.committed = @ \cup HandledBefore(rows, batchrun.failed),
                       !.batch_start = IF abort_job THEN @ ELSE next,
                       !.pc = IF abort_job \/ next > batchrun.n THEN "done" ELSE "loop"]
  /\ UNCHANGED notBatch

BatchNext ==
  \/ batch_gather
  \/ \E i \in 1..MaxBatchRows, raises \in BOOLEAN : scrape_one_ends(i, raises)
  \/ batch_results

SpecBatch == BatchInit /\ [][BatchNext]_vars

\* the batch a row belongs to, counted from 0
BatchOf(i) == (i - 1) \div batchrun.concurrency
RowsInFlight == batchrun.started \ batchrun.finished

\* C32: at most concurrency row pipelines are in flight, and a row is started
\* only when every row of the earlier batches has ended and has its counters
\* committed.
C32_BatchesInSequence ==
  batchrun.pc # "none" =>
    /\ Cardinality(RowsInFlight) <= batchrun.concurrency
    /\ \A i \in batchrun.started : \A j \in 1..batchrun.n :
          BatchOf(j) < BatchOf(i) => j \in batchrun.finished /\ j \in batchrun.committed

\* the second batch is in flight after a first batch of two rows
C32_Witness ==
  /\ batchrun.pc = "gather"
  /\ batchrun.concurrency = 2
  /\ batchrun.n >= 3
  /\ 3 \in RowsInFlight
  /\ batchrun.committed = {1, 2}


\* ---------------------------------------- the planner: order of its requests
\* C33: one planner run issues at most max_search_calls searches, never has two
\* of them in flight, and issues the extraction call only when every search it
\* issued has returned or failed.
C33_SearchesInSequence ==
  planrun.pc # "none" =>
    /\ planrun.issued <= planrun.max_search_calls
    /\ planrun.in_flight <= 1
    /\ planrun.issued = Len(planrun.outcomes) + planrun.in_flight
    /\ planrun.final_calls >= 1 =>
          /\ planrun.in_flight = 0
          /\ Len(planrun.outcomes) = planrun.issued

\* three queries were planned, two are allowed, and the extraction call came
\* after the second search had failed
C33_Witness ==
  /\ planrun.pc = "returned"
  /\ planrun.parse_mode = "company"
  /\ planrun.max_search_calls = 2
  /\ planrun.issued = 2
  /\ planrun.outcomes = <<"ok", "http_error">>
  /\ planrun.final_calls = 1


\* ---------------------------------------- properties of the ledger: lots
LedgerRows == 1..Len(ledger)
InLot(i) == ledger[i].lot # NoLot
SameLot(i, j) == ledger[i].user = ledger[j].user /\ ledger[i].lot = ledger[j].lot

\* C34: every spend row has the lot_id and the expires_at of an earlier positive
\* row of the same user, and all rows of a user that share a lot_id have the
\* same expires_at.
C34_SpendRowFollowsLot ==
  /\ \A i \in LedgerRows : ledger[i].etype = "spend" =>
        /\ InLot(i)
        /\ \E j \in 1..(i - 1) : /\ SameLot(i, j)
                                 /\ ledger[j].delta > 0
                                 /\ ledger[j].expires = ledger[i].expires
  /\ \A i, j \in LedgerRows :
        (InLot(i) /\ SameLot(i, j)) => ledger[i].expires = ledger[j].expires

\* a spend has taken from a lot that expires
C34_Witness ==
  /\ last.op = "spend" /\ last.ret = "ok"
  /\ \E i \in LedgerRows : /\ ledger[i].etype = "spend"
                           /\ ledger[i].user = U1
                           /\ ledger[i].expires # NoExpiry

\* the sum of delta over the rows of user u with lot_id lot
LotDelta(u, lot) == SumDelta(SelectSeq(ledger, LAMBDA r : r.user = u /\ r.lot = lot))

\* C35: for every lot, the sum of delta over the rows of the lot is at least 0.
C35_LotNeverOverdrawn ==
  \A i \in LedgerRows : InLot(i) => LotDelta(ledger[i].user, ledger[i].lot) >= 0

\* two lots of the user have been used up, by spends of two calls
C35_Witness ==
  /\ last.op = "spend" /\ last.ret = "ok"
  /\ \E i, j \in LedgerRows :
        /\ i < j
        /\ ledger[i].delta > 0 /\ ledger[i].user = U1 /\ LotDelta(U1, ledger[i].lot) = 0
        /\ ledger[j].delta > 0 /\ ledger[j].user = U1 /\ LotDelta(U1, ledger[j].lot) = 0
        /\ \E k \in LedgerRows : i < k /\ k < j /\ ledger[k].etype = "spend"


\* ---------------------------------------- credit operations with the admin endpoints
MaxTarget == 2     \* largest balance admin_set_credits is asked for

AdminNext ==
  \/ Tick
  \/ Recalculate(U1)
  \/ \E inv \in Invoices, pe \in PeriodEnds : WebhookPayment(U1, inv, "trial", pe)
  \/ \E d \in {-1, 1}, days \in {0, 2}, sub \in SubStates : AdminAdjust(U1, d, days, sub)
  \/ \E target \in 0..MaxTarget, days \in {0, 2}, sub \in SubStates :
        AdminSet(U1, target, days, sub)
  \/ \E a \in 1..MaxSpend : Spend(U1, a)

SpecAdmin == CreditInit /\ [][AdminNext]_vars

\* the operations that end with "balance = recalculate_effective_balance(...)"
ReturnsEffective == last.op \in {"recalculate", "admin_adjust", "admin_set"}

\* C36: the effective balance recalculate_effective_balance returns is never
\* negative.
C36_EffectiveBalanceNonNegative ==
  ReturnsEffective => last.ret >= 0

\* C37: the balance admin_set_credits reports, recalculated from the ledger,
\* is the target it was given.
C37_AdminSetReachesTarget ==
  last.op = "admin_set" => last.ret = last.arg

\* the same when the cached balance is the ledger's effective balance at the
\* time of the call and the row the call writes has not expired already
AdminSetFromFreshBalance ==
  [][(/\ last'.op = "admin_set"
      /\ AcctBalance(balance, U1) = recalculate_effective_balance(ledger, U1, now)
      /\ NotExpired(ledger'[Len(ledger')], now))
        => last'.ret = last'.arg]_vars


CostOfCounters ==
  job_row.llm_prompt_tokens * InputNanoPerToken
  + job_row.llm_completion_tokens * OutputNanoPerToken
  + job_row.serper_calls * SerperNanoPerCall
Contacts == IF job_row.decision_makers_found >= 1 THEN job_row.decision_makers_found ELSE 1

MaxItems == 3       \* largest max_items a cache is made with
MaxTtl == 2         \* largest ttl_s, in ticks of time.time()
MaxKeys == 4        \* distinct keys used
MaxCacheClock == 3  \* ticks of time.time() followed
CacheKeys == 1..MaxKeys

\* _items is a dict: its entries in insertion order, each key once
EntryExpired(e, t) == e.expires_at <= t
HasKey(items, k) == \E i \in 1..Len(items) : items[i].key = k
WithoutKey(items, k) == SelectSeq(items, LAMBDA e : e.key # k)

\* "while len(self._items) >= self._max_items and self._items: pop(next(iter(...)))"
RECURSIVE PopOldest(_, _)
PopOldest(items, max_items) ==
  IF Len(items) >= max_items /\ items # <<>> THEN PopOldest(Tail(items), max_items)
  ELSE items

\* variant: at capacity the oldest entries go, expired or not
evict_if_needed_oldest_first(items, max_items, t) ==
  IF Len(items) < max_items THEN items ELSE PopOldest(items, max_items)

\* TTLCache._evict_if_needed
evict_if_needed(items, max_items, t) ==
  IF Len(items) < max_items THEN items
  ELSE PopOldest(SelectSeq(items, LAMBDA e : ~EntryExpired(e, t)), max_items)

\* self._items[key] = _Entry(...): a key already there keeps its place
PutEntry(items, k, expires_at) ==
  IF HasKey(items, k)
  THEN [i \in 1..Len(items) |->
          IF items[i].key = k THEN [key |-> k, expires_at |-> expires_at] ELSE items[i]]
  ELSE Append(items, [key |-> k, expires_at |-> expires_at])

\* TTLCache.set; dropped records the keys the eviction removed
TtlSet(c, k) ==
  LET kept == evict_if_needed(c.items, c.max_items, c.clock)
  IN [c EXCEPT !.items = PutEntry(kept, k, c.clock + c.ttl_s),
               !.last = <<"set", k>>,
               !.dropped = {c.items[i].key : i \in 1..Len(c.items)}
                             \ {kept[i].key : i \in 1..Len(kept)}]

\* TTLCache.get: an expired entry is removed and None is returned
TtlGet(c, k) ==
  IF HasKey(c.items, k)
     /\ \E i \in 1..Len(c.items) : c.items[i].key = k /\ EntryExpired(c.items[i], c.clock)
  THEN [c EXCEPT !.items = WithoutKey(c.items, k), !.last = <<"miss", k>>, !.dropped = {k}]
  ELSE [c EXCEPT !.last = <<IF HasKey(c.items, k) THEN "hit" ELSE "miss", k>>, !.dropped = {}]

\* TTLCache(max_items=m, ttl_s=s): both are raised to 1 at least
TtlInit ==
  /\ ttlcache \in [pc : {"made"}, max_items : {Max(1, m) : m \in 0..MaxItems},
                    ttl_s : {Max(1, s) : s \in 0..MaxTtl}, items : {<<>>}, clock : {0},
                    last : {<<"init", 0>>}, dropped : {{}}]
  /\ ValIdle /\ LimIdle /\ SemIdle /\ ChatIdle /\ ResearchIdle /\ PlanIdle /\ RoleIdle
  /\ BatchIdle
  /\ StoreIdle

notTtl == <<creditVars, concVars, jobVars, val, lim, llmsem, chat, rcache, planrun, rolecall,
            batchrun>>

cache_tick ==
  /\ ttlcache.pc = "made"
  /\ ttlcache.clock < MaxCacheClock
  /\ ttlcache' = [ttlcache EXCEPT !.clock = @ + 1, !.last = <<"tick", 0>>, !.dropped = {}]
  /\ UNCHANGED notTtl

cache_set(k) ==
  /\ ttlcache.pc = "made"
  /\ ttlcache' = TtlSet(ttlcache, k)
  /\ UNCHANGED notTtl

cache_get(k) ==
  /\ ttlcache.pc = "made"
  /\ ttlcache' = TtlGet(ttlcache, k)
  /\ UNCHANGED notTtl

TtlNext ==
  \/ cache_tick
  \/ \E k \in CacheKeys : cache_set(k)
  \/ \E k \in CacheKeys : cache_get(k)

SpecTtl == TtlInit /\ [][TtlNext]_vars

\* ---------------------------------------- properties of TTLCache
StoredKeys(c) == {c.items[i].key : i \in 1..Len(c.items)}
ExpiredKeys(c) == {c.items[i].key : i \in {j \in 1..Len(c.items) : EntryExpired(c.items[j], c.clock)}}
\* a set of a key that is not stored, made when the cache is full
SetOfNewKeyAtCapacity ==
  /\ ttlcache.pc = "made"
  /\ ttlcache'.last[1] = "set"
  /\ ttlcache'.last[2] \notin StoredKeys(ttlcache)
  /\ Len(ttlcache.items) >= ttlcache.max_items

\* C40: the cache never holds more than max_items entries, and a set of a new
\* key at capacity drops an unexpired entry only when it has dropped every
\* expired one.
C40_CacheBounded ==
  /\ [](ttlcache.pc = "made" => Len(ttlcache.items) <= ttlcache.max_items)
  /\ [][SetOfNewKeyAtCapacity =>
          ((StoredKeys(ttlcache) \ ExpiredKeys(ttlcache)) \ StoredKeys(ttlcache') # {}
             => ExpiredKeys(ttlcache) \cap StoredKeys(ttlcache') = {})]_vars

\* a full cache of three entries, the oldest rewritten while there was room so
\* that only the second had expired, took a fourth key: the expired entry went
\* and the oldest, unexpired, stayed
C40_Witness ==
  /\ ttlcache.pc = "made"
  /\ ttlcache.max_items = 3
  /\ ttlcache.last = <<"set", 4>>
  /\ ttlcache.dropped = {2}
  /\ Len(ttlcache.items) = 3
  /\ ttlcache.items[1].key = 1
  /\ ttlcache.items[1].expires_at > ttlcache.clock
  /\ ttlcache.items[3].key = 4

====
